---- MODULE Spec2Model ----
(***************************************************************************)
(* Model of the safety subsystem of cli-agent: the CommandHandler gate     *)
(* (operationMutex / currentOperation), the UndoSystem ledger              *)
(* (operationHistory) and the BackupManager index (backupHistory), over a  *)
(* small flat workspace.                                                   *)
(*                                                                         *)
(* Granularity: Node runs the code between two I/O completions without     *)
(* interleaving, so one action is "an awaited I/O call completes and the   *)
(* code runs on to the next awaited I/O call".                             *)
(***************************************************************************)
EXTENDS Integers, Sequences, FiniteSets, TLC

(***************************************************************************)
(* Bounds of the model.                                                    *)
(***************************************************************************)
MaxCalls == 2
MaxOps == 2
MaxHistorySize == 3
MaxInterrupts == 1
MaxContentLen == 2
MaxSteps == 2
MaxRecords == 3
MaxEdits == 3
MaxMoves == 4
MaxBackups == 2
MaxRetained == 3
MaxClock == 3
MaxPlanned == 3
MaxTargeted == 3
MaxBatches == 3
MaxUndoable == 2
MaxAnalysed == 2
MaxCleaned == 2

Paths == {"a", "b"}                \* entries of the working directory
Nested == {"d/a", "d/b"}           \* entries of its subdirectory d
Tree == Paths \cup Nested

\* path.dirname and path.join, on the paths of Tree
dirname(p) == IF p \in Nested THEN "d" ELSE "."

join(dir, name) ==
    IF dir = "." THEN name ELSE IF name = "a" THEN "d/a" ELSE "d/b"
Chars == {"x"}
NULL == "null"

Slots == 1..MaxCalls
IntProc == 0
ApiProc == MaxCalls + 1
Procs == 0..(MaxCalls + 1)

VARIABLES
    fs,                \* the workspace: path -> [kind, data]
    backupHistory,     \* BackupManager.backupHistory: id -> BackupEntry
    nextBackupId,      \* source of fresh backup ids
    operationHistory,  \* UndoSystem.operationHistory
    maxHistorySize,    \* UndoSystem.maxHistorySize (constructor argument)
    nextOpId,          \* source of fresh operation ids (recording order)
    operationMutex,    \* CommandHandler.operationMutex
    currentOperation,  \* CommandHandler.currentOperation
    calls,             \* executeCommand invocations in flight, per slot
    undoRun,           \* undoOperations invocations in flight, per caller
    intPc,             \* position of handleInterruption
    callCount,         \* executeCommand calls accepted so far (the clock)
    intCount,          \* interruptions delivered so far
    now,               \* Date.now() in milliseconds since the session began
    plannedOperations, \* PlanManager.plannedOperations
    dryRunMode,        \* CLIService.dryRunMode
    discussMode,       \* CLIService.discussMode
    batch,             \* history: the commands last issued together without
                       \* awaiting, and what became of each when issued
    planRun,           \* position of executePlannedOperations
    preImage,          \* history: op id -> the object as the operation found
                       \* it (path, was) and the path the operation left it at
    event              \* history: the last step taken and what it returned

vars == <<fs, backupHistory, nextBackupId, operationHistory, maxHistorySize,
          nextOpId, operationMutex, currentOperation, calls, undoRun, intPc,
          callCount, intCount, now, plannedOperations, planRun, preImage,
          dryRunMode, discussMode, batch, event>>

(***************************************************************************)
(* Sequences and file contents.                                            *)
(***************************************************************************)
Min(a, b) == IF a < b THEN a ELSE b

Last(s) == s[Len(s)]

Front(s) == SubSeq(s, 1, Len(s) - 1)

IsPrefixAt(s, pat, i) ==
    /\ i + Len(pat) - 1 <= Len(s)
    /\ \A k \in 1..Len(pat) : s[i + k - 1] = pat[k]

\* String.prototype.replace with a non-global literal pattern
ReplaceFirst(s, pat, rep) ==
    LET hits == {i \in 1..Len(s) : IsPrefixAt(s, pat, i)}
    IN  IF hits = {} THEN s
        ELSE LET i == CHOOSE h \in hits : \A g \in hits : h <= g
             IN  SubSeq(s, 1, i - 1) \o rep \o SubSeq(s, i + Len(pat), Len(s))

RECURSIVE ReplaceAllFrom(_, _, _, _)
ReplaceAllFrom(s, pat, rep, i) ==
    IF i > Len(s) THEN <<>>
    ELSE IF IsPrefixAt(s, pat, i)
         THEN rep \o ReplaceAllFrom(s, pat, rep, i + Len(pat))
         ELSE <<s[i]>> \o ReplaceAllFrom(s, pat, rep, i + 1)

\* String.prototype.replace with the 'g' flag
ReplaceAll(s, pat, rep) == ReplaceAllFrom(s, pat, rep, 1)

(***************************************************************************)
(* The workspace.                                                          *)
(***************************************************************************)
Absent == [kind |-> "absent", data |-> <<>>]
Dir == [kind |-> "dir", data |-> <<>>]
File(c) == [kind |-> "file", data |-> c]

existsSync(f, p) == f[p].kind # "absent"

Ok(f) == [success |-> TRUE, fs |-> f, detail |-> "none"]
Fail(f) == [success |-> FALSE, fs |-> f, detail |-> "none"]

\* fs.rename(from, to)
FsRename(f, from, to) ==
    IF f[from].kind = "absent" THEN Fail(f)
    ELSE IF from = to THEN Ok(f)
    ELSE IF f[to].kind # "absent" /\ f[to].kind # f[from].kind THEN Fail(f)
    ELSE Ok([f EXCEPT ![to] = f[from], ![from] = Absent])

createFile(f, p, content, overwrite) ==
    IF existsSync(f, p) /\ ~overwrite THEN Fail(f)
    ELSE IF f[p].kind = "dir" THEN Fail(f)
    ELSE Ok([f EXCEPT ![p] = File(content)])

writeFile(f, p, content, mode) ==
    IF f[p].kind = "dir" THEN Fail(f)
    ELSE IF mode = "append" /\ f[p].kind = "file"
         THEN Ok([f EXCEPT ![p] = File(f[p].data \o content)])
         ELSE Ok([f EXCEPT ![p] = File(content)])

readFile(f, p) == IF f[p].kind = "file" THEN Ok(f) ELSE Fail(f)

deleteFile(f, p) ==
    IF f[p].kind = "file" THEN Ok([f EXCEPT ![p] = Absent]) ELSE Fail(f)

modifyFile(f, p, search, replace, global) ==
    IF f[p].kind # "file" THEN Fail(f)
    ELSE LET content == f[p].data
             newContent == IF search = <<>> THEN replace
                           ELSE IF global THEN ReplaceAll(content, search, replace)
                           ELSE ReplaceFirst(content, search, replace)
         IN  IF search # <<>> /\ content = newContent THEN Fail(f)
             ELSE Ok([f EXCEPT ![p] = File(newContent)])

copyFile(f, src, dst, overwrite) ==
    IF ~existsSync(f, src) THEN Fail(f)
    ELSE IF existsSync(f, dst) /\ ~overwrite THEN Fail(f)
    ELSE IF f[src].kind # "file" \/ f[dst].kind = "dir" THEN Fail(f)
    ELSE Ok([f EXCEPT ![dst] = f[src]])

moveFile(f, src, dst, overwrite) ==
    IF ~existsSync(f, src) THEN Fail(f)
    ELSE IF existsSync(f, dst) /\ ~overwrite THEN Fail(f)
    ELSE FsRename(f, src, dst)

renameFile(f, p, newName, overwrite) ==
    LET newPath == join(dirname(p), newName)
    IN  IF ~existsSync(f, p) THEN Fail(f)
        ELSE IF p = newPath THEN Ok(f)
        ELSE IF existsSync(f, newPath) /\ ~overwrite THEN Fail(f)
        ELSE FsRename(f, p, newPath)

createDirectory(f, p, recursive) ==
    IF f[p].kind = "absent" THEN Ok([f EXCEPT ![p] = Dir])
    ELSE IF f[p].kind = "dir" /\ recursive THEN Ok(f)
    ELSE Fail(f)

deleteDirectory(f, p, recursive) ==
    IF f[p].kind = "dir" THEN Ok([f EXCEPT ![p] = Absent]) ELSE Fail(f)

listDirectory(f, p) == IF f[p].kind = "dir" THEN Ok(f) ELSE Fail(f)

(***************************************************************************)
(* BackupManager.                                                          *)
(***************************************************************************)
BackupIds == <<"bk1", "bk2", "bk3", "bk4", "bk5", "bk6", "bk7", "bk8">>

\* createHash('sha256').update(bytes).digest('hex')
sha256(bytes) == <<"sha256", bytes>>

\* (a defect: the stored copy is cut short, the checksum taken of the copy)
createBackupTruncating(f, n, p, t) ==
    IF f[p].kind # "file" THEN [success |-> FALSE, id |-> NULL]
    ELSE [success |-> TRUE, id |-> BackupIds[n],
          backupEntry |-> [id |-> BackupIds[n], timestamp |-> t,
                           sourcePath |-> p,
                           copy |-> File(<<>>),
                           checksum |-> sha256(<<>>)]]

\* what createBackup returns and the index entry it stores
createBackup(f, n, p, t) ==
    IF f[p].kind # "file" THEN [success |-> FALSE, id |-> NULL]
    ELSE [success |-> TRUE, id |-> BackupIds[n],
          backupEntry |-> [id |-> BackupIds[n], timestamp |-> t,
                           sourcePath |-> p,
                           copy |-> File(f[p].data),
                           checksum |-> sha256(f[p].data)]]

RestoreRefusedEarly(bh, backupId) ==
    \/ backupId \notin DOMAIN bh
    \/ bh[backupId].copy.kind # "file"

\* (a defect: the copy is restored without the integrity check)
restoreUnverified(bh, f, backupId, targetPath) ==
    IF RestoreRefusedEarly(bh, backupId) THEN Fail(f)
    ELSE LET restorePath == IF targetPath = NULL THEN bh[backupId].sourcePath
                            ELSE targetPath
         IN  IF f[restorePath].kind = "dir" THEN Fail(f)
             ELSE Ok([f EXCEPT ![restorePath] = File(bh[backupId].copy.data)])

restoreBackup(bh, f, backupId, targetPath) ==
    IF RestoreRefusedEarly(bh, backupId) THEN Fail(f)
    ELSE LET restorePath == IF targetPath = NULL THEN bh[backupId].sourcePath
                            ELSE targetPath
         IN  IF sha256(bh[backupId].copy.data) # bh[backupId].checksum
             THEN Fail(f)
             ELSE IF f[restorePath].kind = "dir" THEN Fail(f)
             ELSE Ok([f EXCEPT ![restorePath] = File(bh[backupId].copy.data)])

\* maxAge * 60 * 60 * 1000
HourMs == 3600000

\* position of an id in the order the Map received its keys
InsertionIndex(id) == CHOOSE n \in 1..Len(BackupIds) : BackupIds[n] = id

\* the comparator b.timestamp - a.timestamp under the stable Array.sort
ComesBefore(x, y) ==
    \/ x.timestamp > y.timestamp
    \/ x.timestamp = y.timestamp /\ InsertionIndex(x.id) < InsertionIndex(y.id)

RECURSIVE SortedNewestFirst(_, _)
SortedNewestFirst(bh, ids) ==
    IF ids = {} THEN <<>>
    ELSE LET first == CHOOSE i \in ids :
                          \A j \in ids \ {i} : ComesBefore(bh[i], bh[j])
         IN  <<bh[first]>> \o SortedNewestFirst(bh, ids \ {first})

getBackupHistory(bh) == SortedNewestFirst(bh, DOMAIN bh)

\* the ids of the backups whose flag is want, in list order
RECURSIVE IdsWhere(_, _, _)
IdsWhere(backups, flags, want) ==
    IF backups = <<>> THEN <<>>
    ELSE (IF flags[1] = want THEN <<backups[1].id>> ELSE <<>>)
             \o IdsWhere(Tail(backups), Tail(flags), want)

Range(seq) == {seq[i] : i \in 1..Len(seq)}

\* (a defect: the age limit is not applied)
cleanupByCountOnly(bh, t, maxAge, maxCount, dryRun) ==
    LET backups == getBackupHistory(bh)
        keep == [i \in 1..Len(backups) |-> i - 1 < maxCount]
        deleted == IdsWhere(backups, keep, FALSE)
    IN  [deleted |-> deleted,
         kept |-> IdsWhere(backups, keep, TRUE),
         errors |-> <<>>,
         index |-> IF dryRun THEN bh
                   ELSE [id \in DOMAIN bh \ Range(deleted) |-> bh[id]]]

\* cleanup with no deletion failing: the lists returned and the index left
cleanup(bh, t, maxAge, maxCount, dryRun) ==
    LET backups == getBackupHistory(bh)
        keep == [i \in 1..Len(backups) |->
                    /\ i - 1 < maxCount
                    /\ t - backups[i].timestamp < maxAge * HourMs]
        deleted == IdsWhere(backups, keep, FALSE)
    IN  [deleted |-> deleted,
         kept |-> IdsWhere(backups, keep, TRUE),
         errors |-> <<>>,
         index |-> IF dryRun THEN bh
                   ELSE [id \in DOMAIN bh \ Range(deleted) |-> bh[id]]]

\* the ids of the backups of the list that are in ids, in list order
RECURSIVE IdsAmong(_, _)
IdsAmong(backups, ids) ==
    IF backups = <<>> THEN <<>>
    ELSE (IF backups[1].id \in ids THEN <<backups[1].id>> ELSE <<>>)
             \o IdsAmong(Tail(backups), ids)

\* cleanup when fs.unlink throws for the stored copies of the backups in
\* copyFails and for the metadata files of the backups in metaFails: the
\* lists returned and the index left.  For a backup selected for deletion
\* the copy is unlinked if it exists, then the metadata file, then the
\* record leaves the index; a throw skips the rest for that backup and
\* pushes an error.
cleanupWithFailures(bh, t, maxAge, maxCount, dryRun, copyFails, metaFails) ==
    LET backups == getBackupHistory(bh)
        keep == [i \in 1..Len(backups) |->
                    /\ i - 1 < maxCount
                    /\ t - backups[i].timestamp < maxAge * HourMs]
        toDelete == Range(IdsWhere(backups, keep, FALSE))
        copyThrows == IF dryRun THEN {}
                      ELSE {id \in toDelete :
                               bh[id].copy.kind # "absent" /\ id \in copyFails}
        metaThrows == IF dryRun THEN {}
                      ELSE {id \in toDelete \ copyThrows : id \in metaFails}
        failed == copyThrows \cup metaThrows
    IN  [deleted |-> IdsAmong(backups, toDelete \ failed),
         kept |-> IdsWhere(backups, keep, TRUE),
         errors |-> IdsAmong(backups, failed),
         index |-> IF dryRun THEN bh
                   ELSE [id \in DOMAIN bh \ (toDelete \ failed) |->
                            IF id \in metaThrows
                            THEN [bh[id] EXCEPT !.copy = Absent]
                            ELSE bh[id]]]

(***************************************************************************)
(* UndoSystem.                                                             *)
(***************************************************************************)
UndoOperation(type, targetPath, originalData, id) ==
    [type |-> type, targetPath |-> targetPath,
     originalData |-> originalData, id |-> id]

\* (a defect: the entry is never pushed)
recordNothing(hist, op, max) == hist

\* push, then shift while the history is longer than maxHistorySize
recordOperation(hist, op, max) ==
    LET pushed == Append(hist, op)
    IN  IF Len(pushed) > max
        THEN SubSeq(pushed, Len(pushed) - max + 1, Len(pushed))
        ELSE pushed

\* message: the type of the entry; detail: "already_absent" when the
\* reversal of a creation found nothing to remove
UndoResult(success, message) ==
    [success |-> success, message |-> message, detail |-> "none"]

\* (a defect: a creation whose target is gone cannot be undone)
undoCreateFileStrict(op, f) ==
    IF f[op.targetPath].kind = "file"
    THEN Ok([f EXCEPT ![op.targetPath] = Absent])
    ELSE Fail(f)

\* the inner catch of undoCreateFile / undoCreateDirectory
AlreadyAbsent(f) == [Ok(f) EXCEPT !.detail = "already_absent"]

EmptyHistoryResult == UndoResult(FALSE, "empty_history")

undoCreateFile(op, f) ==
    IF f[op.targetPath].kind = "file"
    THEN Ok([f EXCEPT ![op.targetPath] = Absent])
    ELSE AlreadyAbsent(f)

undoCreateDirectory(op, f) ==
    IF existsSync(f, op.targetPath)
    THEN Ok([f EXCEPT ![op.targetPath] = Absent])
    ELSE AlreadyAbsent(f)

\* (a defect: a missing backup is taken for nothing to restore)
undoWriteFileLenient(op, f, bh) ==
    IF op.originalData = NULL THEN Fail(f)
    ELSE IF op.originalData \notin DOMAIN bh THEN Ok(f)
    ELSE restoreBackup(bh, f, op.originalData, op.targetPath)

\* (a defect: the backup is restored to the path it was taken from)
undoWriteFileToSource(op, f, bh) ==
    IF op.originalData = NULL THEN Fail(f)
    ELSE restoreBackup(bh, f, op.originalData, NULL)

undoWriteFile(op, f, bh) ==
    IF op.originalData = NULL THEN Fail(f)
    ELSE restoreBackup(bh, f, op.originalData, op.targetPath)

undoDeleteFile(op, f) ==
    IF op.originalData = NULL THEN Fail(f)
    ELSE IF f[op.targetPath].kind = "dir" THEN Fail(f)
    ELSE Ok([f EXCEPT ![op.targetPath] = File(<<>>)])

undoDeleteDirectory(op, f) ==
    IF op.originalData = NULL THEN Fail(f)
    ELSE IF f[op.targetPath].kind = "file" THEN Fail(f)
    ELSE Ok([f EXCEPT ![op.targetPath] = Dir])

undoMoveFile(op, f) ==
    IF op.originalData = NULL THEN Fail(f)
    ELSE FsRename(f, op.targetPath, op.originalData)

undoSingleOperation(op, f, bh) ==
    CASE op.type = "create_file" -> undoCreateFile(op, f)
      [] op.type = "create_directory" -> undoCreateDirectory(op, f)
      [] op.type \in {"write_file", "modify_file", "truncate_file"} ->
             undoWriteFile(op, f, bh)
      [] op.type = "delete_file" -> undoDeleteFile(op, f)
      [] op.type = "delete_directory" -> undoDeleteDirectory(op, f)
      [] op.type \in {"move_file", "rename_file"} -> undoMoveFile(op, f)
      [] OTHER -> Fail(f)

\* the reversals that return a failure before any awaited I/O call
FailsBeforeIO(op, bh) ==
    CASE op.type \in {"create_file", "create_directory"} -> FALSE
      [] op.type \in {"write_file", "modify_file", "truncate_file"} ->
             op.originalData = NULL \/ RestoreRefusedEarly(bh, op.originalData)
      [] op.type \in {"delete_file", "delete_directory",
                      "move_file", "rename_file"} -> op.originalData = NULL
      [] OTHER -> TRUE

isUndoable(op) ==
    \/ op.type \in {"create_file", "create_directory"}
    \/ op.type = "delete_file" /\ op.originalData # NULL

\* (a defect: every entry of the history is counted as undoable)
getStatisticsByLength(hist) ==
    [totalOperations |-> Len(hist), undoableOperations |-> Len(hist)]

getStatistics(hist) ==
    [totalOperations |-> Len(hist),
     undoableOperations |-> Cardinality({i \in 1..Len(hist) : isUndoable(hist[i])})]

\* The state of one undoOperations invocation.
\*   pc       "none" (not running), "io" (awaiting undoSingleOperation)
\*   op       the entry popped and being reversed
\*   steps    the argument of the call
\*   left     iterations of the for loop still to run after this one
\*   results  the results pushed so far
\*   tried    ids of the entries whose reversal was attempted, in order
\*   start    the history as it was when the call was made
\*   before   the history as it was when the last attempted entry was popped
NoOp == UndoOperation("none", "a", NULL, 0)
NoRun == [pc |-> "none", op |-> NoOp, steps |-> 0, left |-> 0,
          results |-> <<>>, tried |-> <<>>, start |-> <<>>, before |-> <<>>]

\* (a defect: the loop takes the oldest entry, shift() for pop())
UndoLoopOldestFirst(hist, bh, run) ==
    IF run.left = 0 \/ hist = <<>>
    THEN [hist |-> hist, run |-> [run EXCEPT !.pc = "none", !.op = NoOp]]
    ELSE [hist |-> Tail(hist),
          run |-> [run EXCEPT !.pc = "io", !.op = Head(hist), !.left = @ - 1,
                              !.tried = Append(@, Head(hist).id),
                              !.before = hist]]

\* One pass through the head of the for loop of undoOperations: returns the
\* new history and the new invocation state (pc "none" when it returned).
UndoLoop(hist, bh, run) ==
    IF run.left = 0 \/ hist = <<>>
    THEN [hist |-> hist, run |-> [run EXCEPT !.pc = "none", !.op = NoOp]]
    ELSE LET operation == Last(hist)
         IN  IF FailsBeforeIO(operation, bh)
             THEN \* popped, failed at once, pushed back, loop left
                  [hist |-> hist,
                   run |-> [run EXCEPT
                              !.pc = "none", !.op = NoOp,
                              !.results = Append(@, UndoResult(FALSE, operation.type)),
                              !.tried = Append(@, operation.id),
                              !.before = hist]]
             ELSE [hist |-> Front(hist),
                   run |-> [run EXCEPT
                              !.pc = "io", !.op = operation, !.left = @ - 1,
                              !.tried = Append(@, operation.id),
                              !.before = hist]]

\* (a defect: an empty history returns no result at all)
UndoBeginSilentWhenEmpty(hist, bh, steps) ==
    LET run == [NoRun EXCEPT !.steps = steps, !.start = hist,
                             !.left = Min(steps, Len(hist))]
    IN  IF hist = <<>> THEN [hist |-> hist, run |-> run]
        ELSE [hist |-> Front(hist),
              run |-> [run EXCEPT !.pc = "io", !.op = Last(hist), !.left = @ - 1,
                                  !.tried = <<Last(hist).id>>, !.before = hist]]

\* undoOperations(steps) up to its first awaited I/O call
UndoBegin(hist, bh, steps) ==
    IF hist = <<>>
    THEN [hist |-> hist,
          run |-> [NoRun EXCEPT !.steps = steps,
                                !.results = <<EmptyHistoryResult>>]]
    ELSE UndoLoop(hist, bh, [NoRun EXCEPT !.steps = steps, !.start = hist,
                                          !.left = Min(steps, Len(hist))])

\* undoOperations from the completion of undoSingleOperation onwards
UndoResume(hist, bh, f, run) ==
    LET r == undoSingleOperation(run.op, f, bh)
        done == [run EXCEPT !.results =
                    Append(@, [UndoResult(r.success, run.op.type) EXCEPT
                                  !.detail = r.detail])]
    IN  IF ~r.success
        THEN [hist |-> Append(hist, run.op), fs |-> r.fs,
              run |-> [done EXCEPT !.pc = "none", !.op = NoOp]]
        ELSE [fs |-> r.fs] @@ UndoLoop(hist, bh, done)

(***************************************************************************)
(* Command intents (the inputs of executeCommand).                         *)
(***************************************************************************)
InputContents == {<<>>} \cup {<<c>> : c \in Chars}

Intent(type, path) ==
    [type |-> type, path |-> path, dest |-> path, content |-> <<>>,
     search |-> <<>>, overwrite |-> FALSE, global |-> FALSE,
     recursive |-> FALSE, confirm |-> FALSE]

NoIntent == Intent("none", "a")

\* one or two intents for every path through every handler
Intents ==
    {[Intent(t, p) EXCEPT !.content = <<"x">>, !.overwrite = o] :
        t \in {"create_file", "write_file"}, p \in Paths, o \in BOOLEAN}
    \cup {Intent("read_file", p) : p \in Paths}
    \cup {Intent("list_directory", "b")}
    \cup {[Intent("delete_file", p) EXCEPT !.confirm = k] :
        p \in Paths, k \in BOOLEAN}
    \cup {[Intent("delete_directory", "b") EXCEPT !.confirm = k] : k \in BOOLEAN}
    \cup {[Intent("modify_file", "a") EXCEPT !.search = s, !.content = r] :
        s \in InputContents, r \in InputContents}
    \cup {[Intent("modify_file", "a") EXCEPT !.search = <<"x">>, !.global = TRUE],
          [Intent("modify_file", "b") EXCEPT !.content = <<"x">>]}
    \cup {i \in {[Intent(t, p) EXCEPT !.dest = d, !.overwrite = o] :
                   t \in {"copy_file", "move_file"},
                   p \in Paths, d \in Paths, o \in BOOLEAN} : i.path # i.dest}
    \cup {[Intent("rename_file", "a") EXCEPT !.dest = d, !.overwrite = o] :
        d \in Paths, o \in BOOLEAN}
    \cup {Intent("create_directory", p) : p \in Paths}
    \cup {Intent(t, "a") : t \in {"undo", "explain", "help"}}

MutatingTypes ==
    {"create_file", "write_file", "delete_file", "modify_file", "copy_file",
     "move_file", "rename_file", "create_directory", "delete_directory"}

\* the list in handleInterruption
modifyingOperations ==
    {"create_file", "create_directory", "write_file", "delete_file",
     "delete_directory", "move_file", "rename_file"}

(***************************************************************************)
(* State of the invocations.                                               *)
(***************************************************************************)
IdleCall == [pc |-> "idle", intent |-> NoIntent, startTime |-> 0,
             backupId |-> NULL, existed |-> FALSE]

NoCurrent == [intent |-> NoIntent, startTime |-> 0]

\* What the last step was and what it returned to its caller.
\*   kind      "accept", "reject", "finish", "step", "interrupt",
\*             "interrupted", "interrupt_idle", "undo_call", "undo_return"
\*   type      the intent type of the call, or of the interrupted operation
\*   outcome   of a finished executeCommand call
\*   recorded  entries the finished call appended to the history
\*   named     the operation type named by operationMutexLocked
\*   undone    an undoOperations call returned in this step, and then its
\*             argument, its results, the ids of the entries it attempted,
\*             the history when it was called, before its last attempt and
\*             when it returned
\* no call of the BackupManager returned in the last step
NoApi == [op |-> "none"]

Ev(kind, type) ==
    [kind |-> kind, type |-> type, outcome |-> "none", recorded |-> 0,
     named |-> "none", undone |-> FALSE, steps |-> 0, results |-> <<>>,
     tried |-> <<>>, start |-> <<>>, before |-> <<>>, after |-> <<>>,
     api |-> NoApi]

WithUndo(ev, run, hist) ==
    [ev EXCEPT !.undone = TRUE, !.steps = run.steps, !.results = run.results,
               !.tried = run.tried, !.start = run.start, !.before = run.before,
               !.after = hist]

\* executePlannedOperations is not running
NoPlanRun == [pc |-> "idle", operations |-> <<>>, base |-> 0, firstOp |-> 0]

InitWorkspace == [p \in Tree |-> IF p = "a" THEN File(<<"x">>) ELSE Absent]

Init ==
    /\ fs = InitWorkspace
    /\ backupHistory = <<>>
    /\ nextBackupId = 1
    /\ operationHistory = <<>>
    /\ maxHistorySize \in {1, MaxHistorySize}
    /\ nextOpId = 1
    /\ operationMutex = FALSE
    /\ currentOperation = NoCurrent
    /\ calls = [s \in Slots |-> IdleCall]
    /\ undoRun = [p \in Procs |-> NoRun]
    /\ intPc = "idle"
    /\ callCount = 0
    /\ intCount = 0
    /\ now = 0
    /\ batch = <<>>
    /\ dryRunMode = FALSE
    /\ discussMode = FALSE
    /\ plannedOperations = <<>>
    /\ planRun = NoPlanRun
    /\ preImage = <<>>
    /\ event = Ev("init", "none")

InFlight == {s \in Slots : calls[s].pc # "idle"}

(***************************************************************************)
(* CommandHandler.executeCommand.                                          *)
(***************************************************************************)
\* (a defect: the invocation ends without the finally block)
ReturnHoldingGate(s) ==
    /\ calls' = [calls EXCEPT ![s] = IdleCall]
    /\ UNCHANGED <<operationMutex, currentOperation>>

\* the finally block, and the end of the invocation in slot s
Release(s) ==
    /\ operationMutex' = FALSE
    /\ currentOperation' = NoCurrent
    /\ calls' = [calls EXCEPT ![s] = IdleCall]

\* the position of a handler at its first awaited call
FirstAwait(intent, hasCallback) ==
    CASE intent.type \in {"write_file", "modify_file"} -> "backup"
      [] intent.type = "copy_file" ->
             IF intent.overwrite THEN "backup" ELSE "prim"
      [] intent.type \in {"delete_file", "delete_directory"} ->
             IF intent.confirm /\ hasCallback THEN "confirm" ELSE "prim"
      [] intent.type \in {"move_file", "rename_file"} ->
             IF intent.overwrite /\ hasCallback THEN "confirm" ELSE "prim"
      [] OTHER -> "prim"

\* the handlers that finish without awaiting any I/O
EndsAtOnce(intent) ==
    \/ intent.type \in {"explain", "help"}
    \/ intent.type = "modify_file" /\ ~existsSync(fs, intent.path)

Accepted(s, intent, pc) ==
    /\ operationMutex' = TRUE
    /\ currentOperation' = [intent |-> intent, startTime |-> callCount + 1]
    /\ calls' = [calls EXCEPT ![s] =
           [IdleCall EXCEPT !.pc = pc, !.intent = intent,
                            !.startTime = callCount + 1]]
    /\ event' = Ev("accept", intent.type)

ExecuteCommand(s, intent, hasCallback) ==
    /\ ~operationMutex
    /\ calls[s].pc = "idle"
    /\ \A t \in Slots : t < s => calls[t].pc # "idle"
    /\ intent.type = "write_file" /\ ~intent.overwrite =>
           Len(fs[intent.path].data) + Len(intent.content) <= MaxContentLen
    /\ callCount' = callCount + 1
    /\ UNCHANGED <<backupHistory, nextBackupId, maxHistorySize, batch, dryRunMode, discussMode, plannedOperations, planRun, now, nextOpId,
                   intPc, intCount, preImage, fs>>
    /\ IF EndsAtOnce(intent)
       THEN /\ Release(s)
            /\ event' = [Ev("finish", intent.type) EXCEPT
                           !.outcome = IF intent.type = "explain"
                                       THEN "success" ELSE "failed"]
            /\ UNCHANGED <<operationHistory, undoRun>>
       ELSE IF intent.type = "undo"
       THEN LET u == UndoBegin(operationHistory, backupHistory, 1)
            IN  /\ operationHistory' = u.hist
                /\ IF u.run.pc = "none"
                   THEN /\ Release(s)
                        /\ UNCHANGED undoRun
                        /\ event' = WithUndo([Ev("finish", "undo") EXCEPT
                                                !.outcome = "success"],
                                             u.run, u.hist)
                   ELSE /\ Accepted(s, intent, "undo")
                        /\ undoRun' = [undoRun EXCEPT ![s] = u.run]
       ELSE /\ Accepted(s, intent, FirstAwait(intent, hasCallback))
            /\ UNCHANGED <<operationHistory, undoRun>>

\* (a defect: the error names the operation that was turned away)
NameOfCaller(current, type) == type

\* the argument of operationMutexLocked: currentOperation?.intent.type || 'unknown'
LockedName(current, type) ==
    IF current # NoCurrent THEN current.intent.type ELSE "unknown"

\* executeCommand called while the mutex is held: operationMutexLocked
Reject(type) ==
    /\ operationMutex
    /\ event' = [Ev("reject", type) EXCEPT
                   !.outcome = "rejected",
                   !.named = LockedName(currentOperation, type)]
    /\ UNCHANGED <<fs, backupHistory, nextBackupId, operationHistory,
                   maxHistorySize, batch, dryRunMode, discussMode, plannedOperations, planRun, now, nextOpId, operationMutex, currentOperation,
                   calls, undoRun, intPc, callCount, intCount, preImage>>

\* the confirmation callback answers
Confirm(s, confirmed) ==
    /\ calls[s].pc = "confirm"
    /\ UNCHANGED <<fs, backupHistory, nextBackupId, operationHistory,
                   maxHistorySize, batch, dryRunMode, discussMode, plannedOperations, planRun, now, nextOpId, undoRun, intPc, callCount,
                   intCount, preImage>>
    /\ IF confirmed
       THEN /\ calls' = [calls EXCEPT ![s].pc = "prim"]
            /\ event' = Ev("step", calls[s].intent.type)
            /\ UNCHANGED <<operationMutex, currentOperation>>
       ELSE /\ Release(s)
            /\ event' = [Ev("finish", calls[s].intent.type) EXCEPT
                           !.outcome = "declined"]

Primitive(intent, f) ==
    CASE intent.type = "create_file" ->
             createFile(f, intent.path, intent.content, intent.overwrite)
      [] intent.type = "write_file" ->
             writeFile(f, intent.path, intent.content,
                       IF intent.overwrite THEN "overwrite" ELSE "append")
      [] intent.type = "read_file" -> readFile(f, intent.path)
      [] intent.type = "delete_file" -> deleteFile(f, intent.path)
      [] intent.type = "modify_file" ->
             modifyFile(f, intent.path, intent.search, intent.content, intent.global)
      [] intent.type = "copy_file" ->
             copyFile(f, intent.path, intent.dest, intent.overwrite)
      [] intent.type = "move_file" ->
             moveFile(f, intent.path, intent.dest, intent.overwrite)
      [] intent.type = "rename_file" ->
             renameFile(f, intent.path, intent.dest, intent.overwrite)
      [] intent.type = "create_directory" ->
             createDirectory(f, intent.path, intent.recursive)
      [] intent.type = "delete_directory" ->
             deleteDirectory(f, intent.path, intent.recursive)
      [] intent.type = "list_directory" -> listDirectory(f, intent.path)

\* (a defect: no handler passes its backup id on to the ledger)
RecordedWithoutBackup(intent, backupId, id) ==
    CASE intent.type \in {"create_file", "write_file", "modify_file"} ->
             UndoOperation(intent.type, intent.path, NULL, id)
      [] intent.type = "delete_file" ->
             UndoOperation("delete_file", intent.path, intent.path, id)
      [] intent.type = "copy_file" ->
             UndoOperation("delete_file", intent.dest, NULL, id)
      [] intent.type \in {"move_file", "rename_file"} ->
             UndoOperation(intent.type, intent.dest, intent.path, id)
      [] intent.type = "create_directory" ->
             UndoOperation("create_directory", intent.path, NULL, id)
      [] intent.type = "delete_directory" ->
             UndoOperation("delete_directory", intent.path, intent.path, id)

\* the argument a handler passes to recordOperation
RecordedFor(intent, backupId, id) ==
    CASE intent.type = "create_file" ->
             UndoOperation("create_file", intent.path, backupId, id)
      [] intent.type = "write_file" ->
             UndoOperation("write_file", intent.path, backupId, id)
      [] intent.type = "modify_file" ->
             UndoOperation("modify_file", intent.path, backupId, id)
      [] intent.type = "delete_file" ->
             UndoOperation("delete_file", intent.path, intent.path, id)
      [] intent.type = "copy_file" ->
             UndoOperation("delete_file", intent.dest, backupId, id)
      [] intent.type = "move_file" ->
             UndoOperation("move_file", intent.dest, intent.path, id)
      [] intent.type = "rename_file" ->
             UndoOperation("rename_file", intent.dest, intent.path, id)
      [] intent.type = "create_directory" ->
             UndoOperation("create_directory", intent.path, NULL, id)
      [] intent.type = "delete_directory" ->
             UndoOperation("delete_directory", intent.path, intent.path, id)

\* where the object of a successful operation is afterwards
PostPath(intent) ==
    CASE intent.type \in {"move_file", "copy_file"} -> intent.dest
      [] intent.type = "rename_file" -> join(dirname(intent.path), intent.dest)
      [] OTHER -> intent.path

\* await backupService.recordOperation(...), then the handler returns
RecordAndReturn(s, backupId, found, existed) ==
    /\ operationHistory' = recordOperation(operationHistory,
                               RecordedFor(calls[s].intent, backupId, nextOpId),
                               maxHistorySize)
    /\ nextOpId' = nextOpId + 1
    /\ preImage' = preImage @@ (nextOpId :> [path |-> calls[s].intent.path,
                                             cmd |-> calls[s].intent.type,
                                             was |-> found,
                                             existed |-> existed,
                                             post |-> PostPath(calls[s].intent),
                                             call |-> calls[s].startTime,
                                             source |-> fs[calls[s].intent.path],
                                             target |-> fs[PostPath(calls[s].intent)]])
    /\ Release(s)
    /\ event' = [Ev("finish", calls[s].intent.type) EXCEPT
                   !.outcome = "success", !.recorded = 1]

\* (a defect: executeCommand lets the handler's error out to its caller)
RethrowAndReturn(s) ==
    /\ Release(s)
    /\ event' = [Ev("finish", calls[s].intent.type) EXCEPT
                   !.outcome = "rejected"]
    /\ UNCHANGED <<operationHistory, nextOpId, preImage>>

\* the handler throws; executeCommand catches, reports and releases
ThrowAndReturn(s) ==
    /\ Release(s)
    /\ event' = [Ev("finish", calls[s].intent.type) EXCEPT !.outcome = "failed"]
    /\ UNCHANGED <<operationHistory, nextOpId, preImage>>

\* (a defect: the handler goes on to its primitive without a backup)
BackupBeforeSkipped(s) ==
    /\ calls[s].pc = "backup"
    /\ calls' = [calls EXCEPT ![s].pc = "prim", ![s].backupId = NULL]
    /\ event' = Ev("step", calls[s].intent.type)
    /\ UNCHANGED <<fs, backupHistory, nextBackupId, operationHistory,
                   maxHistorySize, batch, dryRunMode, discussMode,
                   plannedOperations, planRun, now, nextOpId, operationMutex,
                   currentOperation, undoRun, intPc, callCount, intCount,
                   preImage>>

\* (a defect: modify_file goes on when its backup failed)
BackupBeforeOptional(s) ==
    /\ calls[s].pc = "backup"
    /\ LET intent == calls[s].intent
           target == IF intent.type = "copy_file" THEN intent.dest ELSE intent.path
           b == createBackup(fs, nextBackupId, target, now)
       IN  /\ IF b.success
              THEN /\ backupHistory' = backupHistory @@ (b.id :> b.backupEntry)
                   /\ nextBackupId' = nextBackupId + 1
              ELSE UNCHANGED <<backupHistory, nextBackupId>>
           /\ IF FALSE
              THEN ThrowAndReturn(s)
              ELSE /\ calls' = [calls EXCEPT ![s].pc = "prim", ![s].backupId = b.id]
                   /\ event' = Ev("step", intent.type)
                   /\ UNCHANGED <<operationMutex, currentOperation,
                                  operationHistory, nextOpId, preImage>>
    /\ UNCHANGED <<fs, maxHistorySize, batch, dryRunMode, discussMode, plannedOperations, planRun, now, undoRun, intPc, callCount, intCount>>

\* createBackup before the primitive (write_file, modify_file, copy_file)
BackupBefore(s) ==
    /\ calls[s].pc = "backup"
    /\ LET intent == calls[s].intent
           target == IF intent.type = "copy_file" THEN intent.dest ELSE intent.path
           b == createBackup(fs, nextBackupId, target, now)
       IN  /\ IF b.success
              THEN /\ backupHistory' = backupHistory @@ (b.id :> b.backupEntry)
                   /\ nextBackupId' = nextBackupId + 1
              ELSE UNCHANGED <<backupHistory, nextBackupId>>
           /\ IF intent.type = "modify_file" /\ ~b.success
              THEN ThrowAndReturn(s)
              ELSE /\ calls' = [calls EXCEPT ![s].pc = "prim", ![s].backupId = b.id]
                   /\ event' = Ev("step", intent.type)
                   /\ UNCHANGED <<operationMutex, currentOperation,
                                  operationHistory, nextOpId, preImage>>
    /\ UNCHANGED <<fs, maxHistorySize, batch, dryRunMode, discussMode, plannedOperations, planRun, now, undoRun, intPc, callCount, intCount>>

\* the filesystem primitive completes
RunPrimitive(s) ==
    /\ calls[s].pc = "prim"
    /\ LET intent == calls[s].intent
           result == Primitive(intent, fs)
       IN  /\ fs' = result.fs
           /\ IF ~result.success THEN ThrowAndReturn(s)
              ELSE IF intent.type = "create_file"
              THEN /\ calls' = [calls EXCEPT ![s].pc = "postbackup",
                                              ![s].existed =
                                                  existsSync(fs, intent.path)]
                   /\ event' = Ev("step", intent.type)
                   /\ UNCHANGED <<operationMutex, currentOperation,
                                  operationHistory, nextOpId, preImage>>
              ELSE IF intent.type \in {"read_file", "list_directory"}
              THEN /\ Release(s)
                   /\ event' = [Ev("finish", intent.type) EXCEPT
                                  !.outcome = "success"]
                   /\ UNCHANGED <<operationHistory, nextOpId, preImage>>
              ELSE RecordAndReturn(s, calls[s].backupId,
                                   IF intent.type \in {"write_file", "modify_file",
                                                       "move_file", "rename_file"}
                                   THEN fs[intent.path] ELSE Absent,
                                   existsSync(fs, RecordedFor(intent, NULL, 0)
                                                      .targetPath))
    /\ UNCHANGED <<backupHistory, nextBackupId, maxHistorySize, batch, dryRunMode, discussMode, plannedOperations, planRun, now, undoRun, intPc,
                   callCount, intCount>>

\* handleCreateFile: createBackup of the file just created, then record
BackupAfter(s) ==
    /\ calls[s].pc = "postbackup"
    /\ LET b == createBackup(fs, nextBackupId, calls[s].intent.path, now)
       IN  /\ IF b.success
              THEN /\ backupHistory' = backupHistory @@ (b.id :> b.backupEntry)
                   /\ nextBackupId' = nextBackupId + 1
              ELSE UNCHANGED <<backupHistory, nextBackupId>>
           /\ RecordAndReturn(s, b.id, Absent, calls[s].existed)
    /\ UNCHANGED <<fs, maxHistorySize, batch, dryRunMode, discussMode, plannedOperations, planRun, now, undoRun, intPc, callCount, intCount>>

(***************************************************************************)
(* undoOperations: completion of the awaited undoSingleOperation, for the  *)
(* three callers (handleUndo in a slot, handleInterruption, the API).      *)
(***************************************************************************)
UndoIO(p) ==
    /\ undoRun[p].pc = "io"
    /\ LET u == UndoResume(operationHistory, backupHistory, fs, undoRun[p])
       IN  /\ fs' = u.fs
           /\ operationHistory' = u.hist
           /\ IF u.run.pc = "io"
              THEN /\ undoRun' = [undoRun EXCEPT ![p] = u.run]
                   /\ event' = Ev("step", "undo")
                   /\ UNCHANGED <<operationMutex, currentOperation, calls, intPc>>
              ELSE /\ undoRun' = [undoRun EXCEPT ![p] = NoRun]
                   /\ IF p \in Slots
                      THEN /\ Release(p)
                           /\ event' = WithUndo([Ev("finish", "undo") EXCEPT
                                                   !.outcome = "success"],
                                                u.run, u.hist)
                           /\ UNCHANGED intPc
                      ELSE IF p = IntProc
                      THEN /\ operationMutex' = FALSE
                           /\ currentOperation' = NoCurrent
                           /\ intPc' = "idle"
                           /\ event' = WithUndo(Ev("interrupted", "none"),
                                                u.run, u.hist)
                           /\ UNCHANGED calls
                      ELSE /\ event' = WithUndo(Ev("undo_return", "none"),
                                                u.run, u.hist)
                           /\ UNCHANGED <<operationMutex, currentOperation,
                                          calls, intPc>>
    /\ UNCHANGED <<backupHistory, nextBackupId, maxHistorySize, batch, dryRunMode, discussMode, plannedOperations, planRun, now, nextOpId,
                   callCount, intCount, preImage>>

(***************************************************************************)
(* CommandHandler.handleInterruption.                                      *)
(***************************************************************************)
HandleInterruption ==
    /\ intPc = "idle"
    /\ intCount' = intCount + 1
    /\ UNCHANGED <<fs, backupHistory, nextBackupId, maxHistorySize, batch, dryRunMode, discussMode, plannedOperations, planRun, now, nextOpId,
                   calls, callCount, preImage>>
    /\ IF currentOperation = NoCurrent
       THEN /\ event' = Ev("interrupt_idle", "none")
            /\ UNCHANGED <<operationHistory, operationMutex, currentOperation,
                           undoRun, intPc>>
       ELSE IF currentOperation.intent.type \in modifyingOperations
       THEN LET u == UndoBegin(operationHistory, backupHistory, 1)
            IN  /\ operationHistory' = u.hist
                /\ IF u.run.pc = "none"
                   THEN /\ operationMutex' = FALSE
                        /\ currentOperation' = NoCurrent
                        /\ event' = WithUndo(
                               Ev("interrupted", currentOperation.intent.type),
                               u.run, u.hist)
                        /\ UNCHANGED <<undoRun, intPc>>
                   ELSE /\ undoRun' = [undoRun EXCEPT ![IntProc] = u.run]
                        /\ intPc' = "undo"
                        /\ event' = Ev("interrupt", currentOperation.intent.type)
                        /\ UNCHANGED <<operationMutex, currentOperation>>
       ELSE /\ operationMutex' = FALSE
            /\ currentOperation' = NoCurrent
            /\ event' = Ev("interrupted", currentOperation.intent.type)
            /\ UNCHANGED <<operationHistory, undoRun, intPc>>

(***************************************************************************)
(* The UndoSystem driven directly through its public methods.              *)
(***************************************************************************)
UndoOperationsAPI(steps) ==
    /\ undoRun[ApiProc].pc = "none"
    /\ LET u == UndoBegin(operationHistory, backupHistory, steps)
       IN  /\ operationHistory' = u.hist
           /\ IF u.run.pc = "none"
              THEN /\ event' = WithUndo(Ev("undo_return", "none"), u.run, u.hist)
                   /\ UNCHANGED undoRun
              ELSE /\ undoRun' = [undoRun EXCEPT ![ApiProc] = u.run]
                   /\ event' = Ev("undo_call", "none")
    /\ UNCHANGED <<fs, backupHistory, nextBackupId, maxHistorySize, batch, dryRunMode, discussMode, plannedOperations, planRun, now, nextOpId,
                   operationMutex, currentOperation, calls, intPc, callCount,
                   intCount, preImage>>

RecordOperationAPI(type, targetPath, originalData) ==
    /\ undoRun[ApiProc].pc = "none"
    /\ operationHistory' = recordOperation(operationHistory,
                               UndoOperation(type, targetPath, originalData, nextOpId),
                               maxHistorySize)
    /\ nextOpId' = nextOpId + 1
    /\ event' = [Ev("record", type) EXCEPT !.recorded = 1,
                                           !.start = operationHistory]
    /\ UNCHANGED <<fs, backupHistory, nextBackupId, maxHistorySize, batch, dryRunMode, discussMode, plannedOperations, planRun, now,
                   operationMutex, currentOperation, calls, undoRun, intPc,
                   callCount, intCount, preImage>>

\* UndoSystem.getStatistics() is called
GetStatisticsAPI ==
    /\ undoRun[ApiProc].pc = "none"
    /\ event' = [Ev("statistics", "none") EXCEPT
                   !.api = [op |-> "getStatistics",
                            stats |-> getStatistics(operationHistory)]]
    /\ UNCHANGED <<fs, backupHistory, nextBackupId, operationHistory,
                   maxHistorySize, batch, dryRunMode, discussMode, plannedOperations,
                   planRun, now, nextOpId, operationMutex, currentOperation,
                   calls, undoRun, intPc, callCount, intCount, preImage>>

ClearHistory ==
    /\ undoRun[ApiProc].pc = "none"
    /\ operationHistory # <<>>
    /\ operationHistory' = <<>>
    /\ event' = [Ev("clear", "none") EXCEPT !.start = operationHistory]
    /\ UNCHANGED <<fs, backupHistory, nextBackupId, maxHistorySize, batch, dryRunMode, discussMode, plannedOperations, planRun, now, nextOpId,
                   operationMutex, currentOperation, calls, undoRun, intPc,
                   callCount, intCount, preImage>>

(***************************************************************************)
(* The BackupManager driven directly through its public methods, with the  *)
(* workspace and the stored copies changed from outside between calls.     *)
(***************************************************************************)
CreateBackupAPI(p) ==
    /\ LET b == createBackup(fs, nextBackupId, p, now)
       IN  /\ IF b.success
              THEN /\ backupHistory' = backupHistory @@ (b.id :> b.backupEntry)
                   /\ nextBackupId' = nextBackupId + 1
                   /\ preImage' = preImage @@
                          (b.id :> [path |-> p, was |-> fs[p],
                                    touched |-> FALSE])
              ELSE UNCHANGED <<backupHistory, nextBackupId, preImage>>
           /\ event' = [Ev("api", "none") EXCEPT
                          !.outcome = IF b.success THEN "success" ELSE "failed",
                          !.api = [op |-> "createBackup", id |-> b.id,
                                   path |-> p]]
    /\ UNCHANGED <<fs, operationHistory, maxHistorySize, batch, dryRunMode, discussMode, plannedOperations, planRun, now, nextOpId,
                   operationMutex, currentOperation, calls, undoRun, intPc,
                   callCount, intCount>>

RestoreBackupAPI(backupId, targetPath) ==
    /\ LET r == restoreBackup(backupHistory, fs, backupId, targetPath)
           restorePath == IF targetPath # NULL THEN targetPath
                          ELSE IF backupId \in DOMAIN backupHistory
                          THEN backupHistory[backupId].sourcePath
                          ELSE NULL
       IN  /\ fs' = r.fs
           /\ event' = [Ev("api", "none") EXCEPT
                          !.outcome = IF r.success THEN "success" ELSE "failed",
                          !.api = [op |-> "restoreBackup", id |-> backupId,
                                   path |-> restorePath,
                                   found |-> IF restorePath = NULL THEN Absent
                                             ELSE fs[restorePath]]]
    /\ UNCHANGED <<backupHistory, nextBackupId, operationHistory,
                   maxHistorySize, batch, dryRunMode, discussMode, plannedOperations, planRun, now, nextOpId, operationMutex,
                   currentOperation, calls, undoRun, intPc, callCount,
                   intCount, preImage>>

CleanupAPI(maxAge, maxCount, dryRun) ==
    /\ LET c == cleanup(backupHistory, now, maxAge, maxCount, dryRun)
       IN  /\ backupHistory' = c.index
           /\ event' = [Ev("api", "none") EXCEPT
                          !.outcome = "success",
                          !.api = [op |-> "cleanup", maxAge |-> maxAge,
                                   maxCount |-> maxCount, dryRun |-> dryRun,
                                   now |-> now, index |-> backupHistory,
                                   deleted |-> c.deleted, kept |-> c.kept]]
    /\ UNCHANGED <<fs, nextBackupId, operationHistory, maxHistorySize, batch, dryRunMode, discussMode, plannedOperations, planRun, now,
                   nextOpId, operationMutex, currentOperation, calls, undoRun,
                   intPc, callCount, intCount, preImage>>

\* BackupManager.cleanup(options) with deletions that fail
CleanupFailingAPI(maxAge, maxCount, dryRun, copyFails, metaFails) ==
    /\ LET c == cleanupWithFailures(backupHistory, now, maxAge, maxCount,
                                    dryRun, copyFails, metaFails)
       IN  /\ backupHistory' = c.index
           /\ event' = [Ev("api", "none") EXCEPT
                          !.outcome = "success",
                          !.api = [op |-> "cleanupFailing", maxAge |-> maxAge,
                                   maxCount |-> maxCount, dryRun |-> dryRun,
                                   now |-> now, index |-> backupHistory,
                                   deleted |-> c.deleted, kept |-> c.kept,
                                   errors |-> c.errors]]
    /\ UNCHANGED <<fs, nextBackupId, operationHistory, maxHistorySize, batch,
                   dryRunMode, discussMode, plannedOperations, planRun, now,
                   nextOpId, operationMutex, currentOperation, calls, undoRun,
                   intPc, callCount, intCount, preImage>>

\* half an hour passes
TickMs == 1800000

Tick ==
    /\ now' = now + TickMs
    /\ event' = Ev("tick", "none")
    /\ UNCHANGED <<fs, backupHistory, nextBackupId, operationHistory,
                   maxHistorySize, batch, dryRunMode, discussMode, plannedOperations, planRun, nextOpId, operationMutex, currentOperation,
                   calls, undoRun, intPc, callCount, intCount, preImage>>

\* another program writes or removes a file of the workspace
WriteOutside(p, obj) ==
    /\ fs[p] # obj
    /\ fs' = [fs EXCEPT ![p] = obj]
    /\ event' = Ev("outside", "none")
    /\ UNCHANGED <<backupHistory, nextBackupId, operationHistory,
                   maxHistorySize, batch, dryRunMode, discussMode, plannedOperations, planRun, now, nextOpId, operationMutex,
                   currentOperation, calls, undoRun, intPc, callCount,
                   intCount, preImage>>

\* another program overwrites or removes the stored copy of a backup
TamperCopy(backupId, obj) ==
    /\ backupId \in DOMAIN backupHistory
    /\ backupHistory[backupId].copy # obj
    /\ backupHistory' = [backupHistory EXCEPT ![backupId].copy = obj]
    /\ preImage' = [preImage EXCEPT ![backupId].touched = TRUE]
    /\ event' = Ev("outside", "none")
    /\ UNCHANGED <<fs, nextBackupId, operationHistory, maxHistorySize, batch, dryRunMode, discussMode, plannedOperations, planRun, now,
                   nextOpId, operationMutex, currentOperation, calls, undoRun,
                   intPc, callCount, intCount>>

\* (a defect: no call of the batch is turned away)
AcceptedOfBatchAll(intents, busy) == [i \in DOMAIN intents |-> TRUE]

\* which calls of batch.map(op => executeCommand(op)) pass the check of
\* operationMutex: the calls are made one after the other without awaiting,
\* so the first one takes the gate when it is free and holds it while the
\* others are made
AcceptedOfBatch(intents, busy) == [i \in DOMAIN intents |-> i = 1 /\ ~busy]

\* Promise.all(batch.map(op => commandHandler.executeCommand(op))): every
\* call runs up to its first await, or throws operationMutexLocked
IssueBatch(intents) ==
    /\ calls[1].pc = "idle"
    /\ LET accepted == AcceptedOfBatch(intents, operationMutex)
       IN  /\ batch' = [i \in DOMAIN intents |->
                           [intent |-> intents[i],
                            accepted |-> accepted[i],
                            existed |-> existsSync(fs, intents[i].path)]]
           /\ IF ~operationMutex
              THEN /\ operationMutex' = TRUE
                   /\ currentOperation' = [intent |-> intents[1],
                                           startTime |-> callCount + 1]
                   /\ calls' = [calls EXCEPT ![1] =
                          [IdleCall EXCEPT !.pc = FirstAwait(intents[1], FALSE),
                                           !.intent = intents[1],
                                           !.startTime = callCount + 1]]
                   /\ callCount' = callCount + 1
                   /\ event' = [Ev("accept", intents[1].type) EXCEPT
                                  !.named = intents[1].type]
              ELSE /\ event' = [Ev("reject", intents[1].type) EXCEPT
                                  !.outcome = "rejected",
                                  !.named = LockedName(currentOperation,
                                                       intents[1].type)]
                   /\ UNCHANGED <<operationMutex, currentOperation, calls,
                                  callCount>>
    /\ UNCHANGED <<fs, backupHistory, nextBackupId, operationHistory,
                   maxHistorySize, dryRunMode, discussMode, plannedOperations,
                   planRun, now, nextOpId, undoRun, intPc, intCount, preImage>>

(***************************************************************************)
(* PathValidator, and commands whose path is written out in full.  A path  *)
(* is the text the user gave and its segments between the separators.      *)
(***************************************************************************)
\* backupDirectory relative to the working directory:
\* path.join(workingDirectory, '.cli-agent-backups', sessionId)
BackupDirectorySegments == <<".cli-agent-backups", "session">>

\* backupPath of an entry: path.join(backupDirectory, backupFileName)
BackupPathSegments(backupId) == BackupDirectorySegments \o <<backupId>>

\* path.relative(workingDirectory, path.resolve(workingDirectory, target)):
\* "." is dropped and ".." removes the segment before it; a ".." that
\* leaves the working directory stays at the front
RECURSIVE Normalize(_, _)
Normalize(done, rest) ==
    IF rest = <<>> THEN done
    ELSE IF rest[1] = "." THEN Normalize(done, Tail(rest))
    ELSE IF rest[1] = ".." /\ done # <<>> /\ Last(done) # ".."
    THEN Normalize(Front(done), Tail(rest))
    ELSE Normalize(Append(done, rest[1]), Tail(rest))

\* DANGEROUS_PATH_PATTERNS.some(pattern => pattern.test(resolvedPath)):
\* /system32/i and /windows/i anywhere, /etc\//i, /proc\//i and /dev\//i
\* as a directory on the way
hasDangerousPattern(segments) ==
    \E i \in 1..Len(segments) :
        \/ segments[i] \in {"system32", "windows"}
        \/ i < Len(segments) /\ segments[i] \in {"etc", "proc", "dev"}

\* PathValidator.validatePath
validatePath(segments) ==
    LET relativePath == Normalize(<<>>, segments)
    IN  IF relativePath # <<>> /\ relativePath[1] = ".."
        THEN [valid |-> FALSE, resolvedPath |-> <<>>]
        ELSE IF hasDangerousPattern(relativePath)
        THEN [valid |-> FALSE, resolvedPath |-> <<>>]
        ELSE [valid |-> TRUE, resolvedPath |-> relativePath]

\* what is on disk at a resolved path: a file of the workspace, the stored
\* copy of a backup, the backup directory, or nothing
ObjectAt(f, bh, resolvedPath) ==
    IF Len(resolvedPath) = 1 /\ resolvedPath[1] \in Paths
    THEN f[resolvedPath[1]]
    ELSE IF \E id \in DOMAIN bh : resolvedPath = BackupPathSegments(id)
    THEN bh[CHOOSE id \in DOMAIN bh : resolvedPath = BackupPathSegments(id)].copy
    ELSE IF resolvedPath \in {<<>>, <<".cli-agent-backups">>,
                              BackupDirectorySegments}
    THEN Dir
    ELSE Absent

\* executeCommand({type, path}) for read_file and delete_file with no other
\* caller about: the gate is taken, FileOperations validates the path and
\* reads or unlinks what is there, handleDeleteFile records the deletion,
\* and the gate is released
ExecuteCommandAt(type, target) ==
    /\ ~operationMutex
    /\ \A s \in Slots : calls[s].pc = "idle"
    /\ LET v == validatePath(target.segments)
           success == v.valid /\ ObjectAt(fs, backupHistory, v.resolvedPath).kind = "file"
           removes == success /\ type = "delete_file"
       IN  /\ fs' = IF removes /\ Len(v.resolvedPath) = 1
                    THEN [fs EXCEPT ![v.resolvedPath[1]] = Absent]
                    ELSE fs
           /\ backupHistory' =
                  IF removes /\ Len(v.resolvedPath) > 1
                  THEN [id \in DOMAIN backupHistory |->
                           IF v.resolvedPath = BackupPathSegments(id)
                           THEN [backupHistory[id] EXCEPT !.copy = Absent]
                           ELSE backupHistory[id]]
                  ELSE backupHistory
           /\ operationHistory' =
                  IF removes
                  THEN recordOperation(operationHistory,
                           UndoOperation("delete_file", target.text,
                                         target.text, nextOpId),
                           maxHistorySize)
                  ELSE operationHistory
           /\ nextOpId' = IF removes THEN nextOpId + 1 ELSE nextOpId
           /\ event' = [Ev("finish", type) EXCEPT
                          !.outcome = IF success THEN "success" ELSE "failed",
                          !.recorded = IF removes THEN 1 ELSE 0,
                          !.api = [op |-> "executeCommand",
                                   path |-> target.text,
                                   valid |-> v.valid,
                                   resolvedPath |-> v.resolvedPath]]
    /\ callCount' = callCount + 1
    /\ UNCHANGED <<nextBackupId, maxHistorySize, batch, dryRunMode, discussMode,
                   plannedOperations, planRun, now, operationMutex,
                   currentOperation, calls, undoRun, intPc, intCount,
                   preImage>>

(***************************************************************************)
(* PlanManager, PlanAnalyzer and CLIService.executePlannedOperations.      *)
(***************************************************************************)
\* op.path || op.destinationPath || op.sourcePath
extractTargetPath(operation) ==
    IF operation.type \in {"move_file", "copy_file"} THEN operation.dest
    ELSE operation.path

\* impacts.map(i => i.operation.type), for the impacts grouped under path
RECURSIVE TypesAt(_, _)
TypesAt(operations, path) ==
    IF operations = <<>> THEN <<>>
    ELSE (IF extractTargetPath(operations[1]) = path
          THEN <<operations[1].type>> ELSE <<>>)
             \o TypesAt(Tail(operations), path)

\* the conflicts detectGlobalConflicts adds for paths with several impacts
detectGlobalConflicts(operations) ==
    {[kind |-> "multiple", path |-> p, operations |-> TypesAt(operations, p)] :
        p \in {q \in {extractTargetPath(operations[i]) :
                          i \in 1..Len(operations)} :
                  Len(TypesAt(operations, q)) > 1}}

\* FileState of a path that does not exist
NoFile == [exists |-> FALSE, isDirectory |-> FALSE, size |-> 0, children |-> {}]

\* PlanAnalyzer.getFileState: fs.promises.stat and readdir of the path.
\* (The size of a directory is what the platform reports; 0 stands for it.)
getFileState(f, p) ==
    IF p = "."
    THEN [exists |-> TRUE, isDirectory |-> TRUE, size |-> 0,
          children |-> {q \in Paths : existsSync(f, q)}]
    ELSE CASE f[p].kind = "file" ->
                  [exists |-> TRUE, isDirectory |-> FALSE,
                   size |-> Len(f[p].data), children |-> {}]
           [] f[p].kind = "dir" ->
                  [exists |-> TRUE, isDirectory |-> TRUE, size |-> 0,
                   children |-> {}]
           [] OTHER -> NoFile

determineImpactType(operation) ==
    CASE operation.type \in {"create_file", "create_directory"} -> "create"
      [] operation.type \in {"write_file", "modify_file"} -> "modify"
      [] operation.type \in {"delete_file", "delete_directory"} -> "delete"
      [] operation.type \in {"move_file", "rename_file", "copy_file"} -> "move"
      [] OTHER -> "read"

Conflict(kind, path, operation) ==
    [kind |-> kind, path |-> path, operations |-> <<operation.type>>]

\* the impact analyzeOperation starts from; afterState is a sequence of
\* none or one FileState (the field is optional)
NewImpact(operation, f) ==
    [operation |-> operation,
     targetPath |-> extractTargetPath(operation),
     impactType |-> determineImpactType(operation),
     conflicts |-> {}, warnings |-> {}, affectedFiles |-> {},
     beforeState |-> getFileState(f, extractTargetPath(operation)),
     afterState |-> <<>>]

\* (a defect: an overwriting creation stays classified as a creation)
analyzeCreateFileAsCreate(impact, operation, f) ==
    LET p == impact.targetPath
    IN  [impact EXCEPT
           !.conflicts =
               IF impact.beforeState.exists
               THEN {Conflict(IF operation.overwrite THEN "overwritten"
                              ELSE "exists", p, operation)}
               ELSE {},
           !.warnings =
               IF getFileState(f, dirname(p)).exists THEN {}
               ELSE {[kind |-> "parent_created", path |-> dirname(p)]},
           !.afterState =
               <<[exists |-> TRUE, isDirectory |-> FALSE,
                  size |-> Len(operation.content), children |-> {}]>>]

analyzeCreateFile(impact, operation, f) ==
    LET p == impact.targetPath
        overwritten == impact.beforeState.exists /\ operation.overwrite
    IN  [impact EXCEPT
           !.conflicts =
               IF impact.beforeState.exists
               THEN {Conflict(IF operation.overwrite THEN "overwritten"
                              ELSE "exists", p, operation)}
               ELSE {},
           !.impactType = IF overwritten THEN "modify" ELSE impact.impactType,
           !.warnings =
               IF getFileState(f, dirname(p)).exists THEN {}
               ELSE {[kind |-> "parent_created", path |-> dirname(p)]},
           !.afterState =
               <<[exists |-> TRUE, isDirectory |-> FALSE,
                  size |-> Len(operation.content), children |-> {}]>>]

analyzeCreateDirectory(impact, operation, f) ==
    [impact EXCEPT
       !.conflicts =
           IF impact.beforeState.exists /\ ~impact.beforeState.isDirectory
           THEN {Conflict("exists", impact.targetPath, operation)} ELSE {},
       !.warnings =
           IF impact.beforeState.exists /\ impact.beforeState.isDirectory
           THEN {[kind |-> "directory_exists", path |-> impact.targetPath]}
           ELSE {},
       !.afterState = <<[exists |-> TRUE, isDirectory |-> TRUE, size |-> 0,
                         children |-> {}]>>]

analyzeDelete(impact, operation, f) ==
    LET before == impact.beforeState
        full == before.isDirectory /\ before.children # {}
    IN  IF ~before.exists
        THEN [impact EXCEPT
                !.warnings = {[kind |-> "missing", path |-> impact.targetPath]}]
        ELSE [impact EXCEPT
                !.warnings =
                    IF full /\ operation.recursive
                    THEN {[kind |-> "recursive", path |-> impact.targetPath]}
                    ELSE {},
                !.affectedFiles =
                    IF full /\ operation.recursive THEN before.children ELSE {},
                !.conflicts =
                    IF full /\ ~operation.recursive
                    THEN {Conflict("not_empty", impact.targetPath, operation)}
                    ELSE {},
                !.afterState = <<NoFile>>]

analyzeWriteFile(impact, operation, f) ==
    [impact EXCEPT
       !.impactType = IF impact.beforeState.exists THEN "modify" ELSE "create",
       !.warnings =
           IF impact.beforeState.exists
           THEN {[kind |-> "content_changed", path |-> impact.targetPath]}
           ELSE {},
       !.afterState = <<[exists |-> TRUE, isDirectory |-> FALSE,
                         size |-> Len(operation.content), children |-> {}]>>]

\* the part analyzeMove and analyzeCopy share, once sourcePath and destPath
\* are computed
analyzeTransfer(impact, operation, f, sourcePath, destPath) ==
    LET sourceState == getFileState(f, sourcePath)
        destState == getFileState(f, destPath)
    IN  IF ~sourceState.exists
        THEN [impact EXCEPT
                !.conflicts = {Conflict("source_missing", sourcePath, operation)}]
        ELSE [impact EXCEPT
                !.conflicts =
                    IF destState.exists /\ ~operation.overwrite
                    THEN {Conflict("dest_exists", destPath, operation)}
                    ELSE {},
                !.affectedFiles = {sourcePath, destPath},
                !.afterState = <<sourceState>>]

\* destPath of analyzeMove:
\*   operation.destinationPath || operation.newName
\*     ? path.join(path.dirname(impact.targetPath), operation.newName || '')
\*     : impact.targetPath
\* a move_file has a destinationPath and no newName, so its destPath is the
\* directory of its destination; a rename_file has a newName
moveDestPath(impact, operation) ==
    IF operation.type = "rename_file"
    THEN join(dirname(impact.targetPath), operation.dest)
    ELSE dirname(impact.targetPath)

analyzeMove(impact, operation, f) ==
    analyzeTransfer(impact, operation, f, operation.path,
                    moveDestPath(impact, operation))

analyzeCopy(impact, operation, f) ==
    analyzeTransfer(impact, operation, f, operation.path, operation.dest)

\* PlanAnalyzer.analyzeOperation: every state it reads is read from the
\* disk as it is now (its _analysis parameter is not used)
analyzeOperation(operation, f) ==
    LET impact == NewImpact(operation, f)
    IN  CASE operation.type = "create_file" ->
                 analyzeCreateFile(impact, operation, f)
          [] operation.type = "create_directory" ->
                 analyzeCreateDirectory(impact, operation, f)
          [] operation.type \in {"delete_file", "delete_directory"} ->
                 analyzeDelete(impact, operation, f)
          [] operation.type = "write_file" ->
                 analyzeWriteFile(impact, operation, f)
          [] operation.type \in {"move_file", "rename_file"} ->
                 analyzeMove(impact, operation, f)
          [] operation.type = "copy_file" ->
                 analyzeCopy(impact, operation, f)
          [] OTHER -> [impact EXCEPT !.impactType = "read"]

\* impact.conflicts of one operation, against the workspace as it is now
impactConflicts(operation, f) == analyzeOperation(operation, f).conflicts

\* captureFilesystemState: the target paths and their parent directories
\* (the loop over parents stops at '.')
captureFilesystemState(operations, f) ==
    [p \in {extractTargetPath(operations[i]) : i \in 1..Len(operations)} |->
        getFileState(f, p)]

\* simulateAfterState: the states captured, overwritten by the afterState
\* of every impact that has one, in the order of the plan
RECURSIVE simulateAfterState(_, _)
simulateAfterState(snapshot, impacts) ==
    IF impacts = <<>> THEN snapshot
    ELSE simulateAfterState(
             IF impacts[1].afterState = <<>> THEN snapshot
             ELSE [p \in DOMAIN snapshot \cup {impacts[1].targetPath} |->
                      IF p = impacts[1].targetPath
                      THEN impacts[1].afterState[1] ELSE snapshot[p]],
             Tail(impacts))

\* the number of impacts of one impactType
CountImpacts(impacts, impactType) ==
    Cardinality({i \in DOMAIN impacts : impacts[i].impactType = impactType})

\* PlanAnalyzer.analyzePlan
analyzePlan(operations, f) ==
    LET impacts == [i \in 1..Len(operations) |->
                       analyzeOperation(operations[i], f)]
        before == captureFilesystemState(operations, f)
    IN  [operations |-> impacts,
         totalOperations |-> Len(operations),
         conflicts |-> detectGlobalConflicts(operations) \cup
                       UNION {impacts[i].conflicts : i \in DOMAIN impacts},
         warnings |-> UNION {impacts[i].warnings : i \in DOMAIN impacts},
         filesystemBefore |-> before,
         filesystemAfter |-> simulateAfterState(before, impacts),
         summary |-> [creates |-> CountImpacts(impacts, "create"),
                      modifies |-> CountImpacts(impacts, "modify"),
                      deletes |-> CountImpacts(impacts, "delete"),
                      moves |-> CountImpacts(impacts, "move"),
                      reads |-> CountImpacts(impacts, "read")]]

\* planManager.addOperation(intent): plannedOperations.push(intent)
AddOperation(intent) ==
    /\ plannedOperations' = Append(plannedOperations, intent)
    /\ event' = Ev("plan", intent.type)
    /\ UNCHANGED <<fs, backupHistory, nextBackupId, operationHistory,
                   maxHistorySize, batch, dryRunMode, discussMode, nextOpId,
                   operationMutex, currentOperation, calls, undoRun, intPc,
                   callCount, intCount, now, planRun, preImage>>

\* CLIService.showPlan: the analysis displayed (nothing for an empty plan)
ShowPlan ==
    /\ planRun.pc = "idle"
    /\ event' = [Ev("plan", "none") EXCEPT
                   !.api = [op |-> "showPlan",
                            operations |-> plannedOperations,
                            conflicts |->
                                IF plannedOperations = <<>> THEN {}
                                ELSE analyzePlan(plannedOperations, fs).conflicts]]
    /\ UNCHANGED <<fs, backupHistory, nextBackupId, operationHistory,
                   maxHistorySize, batch, dryRunMode, discussMode, nextOpId, operationMutex, currentOperation,
                   calls, undoRun, intPc, callCount, intCount, now,
                   plannedOperations, planRun, preImage>>

\* (a defect: the analysis consumes the queue it was given)
GetDetailedAnalysisConsuming ==
    /\ planRun.pc = "idle"
    /\ event' = [Ev("plan", "none") EXCEPT
                   !.api = [op |-> "getDetailedAnalysis",
                            operations |-> plannedOperations,
                            analysis |-> analyzePlan(plannedOperations, fs)]]
    /\ plannedOperations' = <<>>
    /\ UNCHANGED <<fs, backupHistory, nextBackupId, operationHistory,
                   maxHistorySize, batch, dryRunMode, discussMode, nextOpId,
                   operationMutex, currentOperation, calls, undoRun, intPc,
                   callCount, intCount, now, planRun, preImage>>

\* PlanManager.getDetailedAnalysis: analyzePlan(this.plannedOperations)
GetDetailedAnalysis ==
    /\ planRun.pc = "idle"
    /\ event' = [Ev("plan", "none") EXCEPT
                   !.api = [op |-> "getDetailedAnalysis",
                            operations |-> plannedOperations,
                            analysis |-> analyzePlan(plannedOperations, fs)]]
    /\ UNCHANGED <<fs, backupHistory, nextBackupId, operationHistory,
                   maxHistorySize, batch, dryRunMode, discussMode, nextOpId,
                   operationMutex, currentOperation, calls, undoRun, intPc,
                   callCount, intCount, now, plannedOperations, planRun,
                   preImage>>

\* PlanManager.clearPlan
ClearPlan ==
    /\ planRun.pc = "idle"
    /\ plannedOperations # <<>>
    /\ plannedOperations' = <<>>
    /\ event' = [Ev("plan", "none") EXCEPT
                   !.api = [op |-> "clearPlan",
                            count |-> Len(plannedOperations)]]
    /\ UNCHANGED <<fs, backupHistory, nextBackupId, operationHistory,
                   maxHistorySize, batch, dryRunMode, discussMode, nextOpId,
                   operationMutex, currentOperation, calls, undoRun, intPc,
                   callCount, intCount, now, planRun, preImage>>

\* executePlannedOperations is called: getOperations() copies the queue.
\* While another operation holds the gate every executeCommand of the loop
\* throws operationMutexLocked at once: the loop counts the operations as
\* failed and clearPlan follows without any of them having run.  The loop
\* resumes in the same turn in which the previous operation released the
\* gate, so no caller finds the gate free while a plan is running.
ExecutePlannedBegin ==
    IF operationMutex
    THEN /\ plannedOperations' = <<>>
         /\ event' = [Ev("plan", "none") EXCEPT
                        !.outcome = "rejected",
                        !.named = LockedName(currentOperation, "none"),
                        !.api = [op |-> "executePlannedOperations",
                                 operations |-> plannedOperations,
                                 firstOp |-> nextOpId,
                                 conflicts |-> {},
                                 rejected |-> Len(plannedOperations)]]
         /\ UNCHANGED <<fs, backupHistory, nextBackupId, operationHistory,
                        maxHistorySize, batch, dryRunMode, discussMode, nextOpId,
                        operationMutex, currentOperation, calls, undoRun,
                        intPc, callCount, intCount, now, planRun, preImage>>
    ELSE /\ planRun.pc = "idle"
         /\ planRun' = [pc |-> "run", operations |-> plannedOperations,
                        base |-> callCount, firstOp |-> nextOpId]
         /\ event' = Ev("plan", "none")
         /\ UNCHANGED <<fs, backupHistory, nextBackupId, operationHistory,
                        maxHistorySize, batch, dryRunMode, discussMode, nextOpId,
                        operationMutex, currentOperation, calls, undoRun,
                        intPc, callCount, intCount, now, plannedOperations,
                        preImage>>

\* the loop: await commandHandler.executeCommand(operations[i])
ExecutePlannedNext ==
    /\ planRun.pc = "run"
    /\ \A s \in Slots : calls[s].pc = "idle"
    /\ callCount - planRun.base < Len(planRun.operations)
    /\ ExecuteCommand(1, planRun.operations[callCount - planRun.base + 1], TRUE)

\* after the loop: showPlanResults, clearPlan.  No analysis is made and no
\* conflict is shown by executePlannedOperations.
ExecutePlannedEnd ==
    /\ planRun.pc = "run"
    /\ \A s \in Slots : calls[s].pc = "idle"
    /\ callCount - planRun.base = Len(planRun.operations)
    /\ plannedOperations' = <<>>
    /\ planRun' = NoPlanRun
    /\ event' = [Ev("plan", "none") EXCEPT
                   !.api = [op |-> "executePlannedOperations",
                            operations |-> planRun.operations,
                            firstOp |-> planRun.firstOp,
                            conflicts |-> {},
                            rejected |-> 0]]
    /\ UNCHANGED <<fs, backupHistory, nextBackupId, operationHistory,
                   maxHistorySize, batch, dryRunMode, discussMode, nextOpId, operationMutex, currentOperation,
                   calls, undoRun, intPc, callCount, intCount, now, preImage>>

\* CLIService.toggleDryRunMode / setDryRunMode
ToggleDryRunMode ==
    /\ dryRunMode' = ~dryRunMode
    /\ event' = Ev("mode", "none")
    /\ UNCHANGED <<fs, backupHistory, nextBackupId, operationHistory,
                   maxHistorySize, batch, discussMode, nextOpId, operationMutex,
                   currentOperation, calls, undoRun, intPc, callCount,
                   intCount, now, plannedOperations, planRun, preImage>>

\* CLIService.toggleDiscussMode / setDiscussMode
ToggleDiscussMode ==
    /\ discussMode' = ~discussMode
    /\ event' = Ev("mode", "none")
    /\ UNCHANGED <<fs, backupHistory, nextBackupId, operationHistory,
                   maxHistorySize, batch, dryRunMode, nextOpId, operationMutex,
                   currentOperation, calls, undoRun, intPc, callCount,
                   intCount, now, plannedOperations, planRun, preImage>>

\* CLIService.isModifyingOperation
isModifyingOperation(intent) ==
    intent.type \notin {"help", "explain", "list_directory", "read_file"}

\* the branches of CLIService.executeCommand that change nothing: help is
\* displayed, or the user answers no to the question asked in discuss mode
ReturnWithoutExecuting(intent, outcome) ==
    /\ event' = [Ev("cli", intent.type) EXCEPT !.outcome = outcome]
    /\ UNCHANGED <<fs, backupHistory, nextBackupId, operationHistory,
                   maxHistorySize, batch, dryRunMode, discussMode, nextOpId,
                   operationMutex, currentOperation, calls, undoRun, intPc,
                   callCount, intCount, now, plannedOperations, planRun,
                   preImage>>

\* executePlannedOperations is between two operations of its loop, or
\* between the loop and its ends.  It passes these points without awaiting
\* anything, so no other handler runs there.
PlanLoopTurn == planRun.pc = "run" /\ ~operationMutex

\* (a defect: the dry-run flag is not consulted)
CLIExecuteIgnoringDryRun(s, intent, hasCallback, confirmed) ==
    /\ ~PlanLoopTurn
    /\ IF intent.type = "help"
       THEN ReturnWithoutExecuting(intent, "help")
       ELSE IF discussMode /\ isModifyingOperation(intent) /\ hasCallback
               /\ ~confirmed
       THEN ReturnWithoutExecuting(intent, "declined")
       ELSE IF operationMutex THEN Reject(intent.type)
       ELSE ExecuteCommand(s, intent, hasCallback)

\* CLIService.executeCommand(intent, confirmationCallback); confirmed is
\* the answer given to the question of discuss mode
CLIExecuteCommand(s, intent, hasCallback, confirmed) ==
    /\ ~PlanLoopTurn
    /\ IF dryRunMode THEN AddOperation(intent)
       ELSE IF intent.type = "help"
       THEN ReturnWithoutExecuting(intent, "help")
       ELSE IF discussMode /\ isModifyingOperation(intent) /\ hasCallback
               /\ ~confirmed
       THEN ReturnWithoutExecuting(intent, "declined")
       ELSE IF operationMutex THEN Reject(intent.type)
       ELSE ExecuteCommand(s, intent, hasCallback)

(***************************************************************************)
(* Spec: the CommandHandler under concurrent callers and interruption.     *)
(***************************************************************************)
\* intents offered while the gate is held
BusyIntents == {Intent("read_file", "a"),
                [Intent("write_file", "a") EXCEPT !.content = <<"x">>]}

Next ==
    \/ /\ callCount < MaxOps
       /\ \E s \in Slots, intent \in Intents, hasCallback \in BOOLEAN :
              ExecuteCommand(s, intent, hasCallback)
    \/ \E intent \in BusyIntents : Reject(intent.type)
    \/ \E s \in Slots, confirmed \in BOOLEAN : Confirm(s, confirmed)
    \/ \E s \in Slots : BackupBefore(s)
    \/ \E s \in Slots : RunPrimitive(s)
    \/ \E s \in Slots : BackupAfter(s)
    \/ \E p \in Slots \cup {IntProc} : UndoIO(p)
    \/ intCount < MaxInterrupts /\ HandleInterruption

Spec == Init /\ [][Next]_vars

(***************************************************************************)
(* LedgerSpec: recordOperation, undoOperations and clearHistory called one *)
(* after the other on an UndoSystem, as the unit tests do.                 *)
(***************************************************************************)
StoredBackup == [id |-> "bk1", timestamp |-> 0, sourcePath |-> "a",
                 copy |-> File(<<"x">>), checksum |-> sha256(<<"x">>)]

LedgerWorkspaces ==
    {f \in [Tree -> {Absent, File(<<>>)}] : \A p \in Nested : f[p] = Absent}

\* the arguments of recordOperation: type, targetPath, originalData
Recordable ==
    {<<"create_file", p, NULL>> : p \in Paths}
    \cup {<<"create_directory", "b", NULL>>,
          <<"write_file", "a", "bk1">>,
          <<"write_file", "a", NULL>>,
          <<"delete_file", "b", "b">>,
          <<"move_file", "b", "a">>}

LedgerInit ==
    /\ fs \in LedgerWorkspaces
    /\ backupHistory = ("bk1" :> StoredBackup)
    /\ nextBackupId = 2
    /\ operationHistory = <<>>
    /\ maxHistorySize \in 1..MaxHistorySize
    /\ nextOpId = 1
    /\ operationMutex = FALSE
    /\ currentOperation = NoCurrent
    /\ calls = [s \in Slots |-> IdleCall]
    /\ undoRun = [p \in Procs |-> NoRun]
    /\ intPc = "idle"
    /\ callCount = 0
    /\ intCount = 0
    /\ now = 0
    /\ batch = <<>>
    /\ dryRunMode = FALSE
    /\ discussMode = FALSE
    /\ plannedOperations = <<>>
    /\ planRun = NoPlanRun
    /\ preImage = <<>>
    /\ event = Ev("init", "none")

LedgerNext ==
    \/ /\ nextOpId <= MaxRecords
       /\ \E r \in Recordable : RecordOperationAPI(r[1], r[2], r[3])
    \/ \E steps \in 1..MaxSteps : UndoOperationsAPI(steps)
    \/ UndoIO(ApiProc)
    \/ ClearHistory

LedgerSpec == LedgerInit /\ [][LedgerNext]_vars

(***************************************************************************)
(* StatisticsSpec: entries of every kind the handlers and the tests record *)
(* are put on the ledger, and getStatistics is read.                       *)
(***************************************************************************)
StatisticsRecordable ==
    Recordable \cup {<<"delete_file", "b", NULL>>,
                     <<"delete_directory", "b", "b">>,
                     <<"modify_file", "a", "bk1">>}

StatisticsNext ==
    \/ /\ nextOpId <= MaxRecords
       /\ \E r \in StatisticsRecordable : RecordOperationAPI(r[1], r[2], r[3])
    \/ GetStatisticsAPI
    \/ ClearHistory

StatisticsSpec == LedgerInit /\ [][StatisticsNext]_vars

(***************************************************************************)
(* FairSpec: Spec with every awaited call of an accepted command           *)
(* completing (the filesystem, the backup store and the confirmation       *)
(* callback terminate).                                                    *)
(***************************************************************************)
CallStep(s) ==
    \/ \E confirmed \in BOOLEAN : Confirm(s, confirmed)
    \/ BackupBefore(s)
    \/ RunPrimitive(s)
    \/ BackupAfter(s)
    \/ UndoIO(s)

FairSpec == Spec /\ \A s \in Slots : WF_vars(CallStep(s))

(***************************************************************************)
(* EditSpec: the CommandHandler given only edits of one file and undo      *)
(* commands, with interruption.                                            *)
(***************************************************************************)
EditIntents ==
    {[Intent("write_file", "a") EXCEPT !.content = <<"x">>, !.overwrite = o] :
        o \in BOOLEAN}
    \cup {[Intent("modify_file", "a") EXCEPT !.search = s] : s \in InputContents}
    \cup {Intent("undo", "a")}

EditNext ==
    \/ /\ callCount < MaxEdits
       /\ \E s \in Slots, intent \in EditIntents :
              ExecuteCommand(s, intent, FALSE)
    \/ \E intent \in BusyIntents : Reject(intent.type)
    \/ \E s \in Slots : BackupBefore(s)
    \/ \E s \in Slots : RunPrimitive(s)
    \/ \E p \in Slots \cup {IntProc} : UndoIO(p)
    \/ intCount < MaxInterrupts /\ HandleInterruption

EditSpec == Init /\ [][EditNext]_vars

(***************************************************************************)
(* MoveSpec: move_file, rename_file and undo commands given one after the  *)
(* other, on a workspace with a file in the subdirectory.                  *)
(***************************************************************************)
MoveWorkspaces ==
    {f \in [Tree -> {Absent, File(<<>>), File(<<"x">>)}] :
        /\ f["d/a"] = File(<<"x">>) /\ f["d/b"] = Absent
        /\ f["a"] = Absent /\ f["b"] # File(<<"x">>)}

MoveIntents ==
    {[Intent("rename_file", p) EXCEPT !.dest = n] : p \in {"b", "d/a"}, n \in Paths}
    \cup {[Intent("move_file", "d/a") EXCEPT !.dest = "a"],
          [Intent("move_file", "a") EXCEPT !.dest = "d/b"],
          [Intent("move_file", "b") EXCEPT !.dest = "a", !.overwrite = TRUE],
          Intent("undo", "a")}

MoveInit ==
    /\ fs \in MoveWorkspaces
    /\ backupHistory = <<>>
    /\ nextBackupId = 1
    /\ operationHistory = <<>>
    /\ maxHistorySize = MaxHistorySize
    /\ nextOpId = 1
    /\ operationMutex = FALSE
    /\ currentOperation = NoCurrent
    /\ calls = [s \in Slots |-> IdleCall]
    /\ undoRun = [p \in Procs |-> NoRun]
    /\ intPc = "idle"
    /\ callCount = 0
    /\ intCount = 0
    /\ now = 0
    /\ batch = <<>>
    /\ dryRunMode = FALSE
    /\ discussMode = FALSE
    /\ plannedOperations = <<>>
    /\ planRun = NoPlanRun
    /\ preImage = <<>>
    /\ event = Ev("init", "none")

MoveNext ==
    \/ /\ callCount < MaxMoves
       /\ \E s \in Slots, intent \in MoveIntents :
              ExecuteCommand(s, intent, FALSE)
    \/ \E s \in Slots : RunPrimitive(s)
    \/ \E s \in Slots : UndoIO(s)

MoveSpec == MoveInit /\ [][MoveNext]_vars

(***************************************************************************)
(* BackupSpec: createBackup and restoreBackup called one after the other   *)
(* on a BackupManager, while files of the workspace and stored copies are  *)
(* changed from outside.                                                   *)
(***************************************************************************)
OutsideObjects == {Absent, Dir, File(<<>>), File(<<"x">>)}

CopyObjects == {Absent, File(<<>>), File(<<"x">>)}

BackupInit ==
    /\ fs = InitWorkspace
    /\ backupHistory = <<>>
    /\ nextBackupId = 1
    /\ operationHistory = <<>>
    /\ maxHistorySize = MaxHistorySize
    /\ nextOpId = 1
    /\ operationMutex = FALSE
    /\ currentOperation = NoCurrent
    /\ calls = [s \in Slots |-> IdleCall]
    /\ undoRun = [p \in Procs |-> NoRun]
    /\ intPc = "idle"
    /\ callCount = 0
    /\ intCount = 0
    /\ now = 0
    /\ batch = <<>>
    /\ dryRunMode = FALSE
    /\ discussMode = FALSE
    /\ plannedOperations = <<>>
    /\ planRun = NoPlanRun
    /\ preImage = <<>>
    /\ event = Ev("init", "none")

BackupNext ==
    \/ /\ nextBackupId <= MaxBackups
       /\ \E p \in Paths : CreateBackupAPI(p)
    \/ \E p \in Paths, obj \in OutsideObjects : WriteOutside(p, obj)
    \/ \E n \in 1..MaxBackups, obj \in CopyObjects :
           TamperCopy(BackupIds[n], obj)
    \/ \E n \in 1..MaxBackups, targetPath \in Paths \cup {NULL} :
           RestoreBackupAPI(BackupIds[n], targetPath)

BackupSpec == BackupInit /\ [][BackupNext]_vars

(***************************************************************************)
(* BackupAreaSpec: backups are taken and cleaned up by the BackupManager   *)
(* while commands name paths inside and outside the working directory.     *)
(***************************************************************************)
TargetPaths ==
    {[text |-> "a", segments |-> <<"a">>],
     [text |-> "./b", segments |-> <<".", "b">>],
     [text |-> "../a", segments |-> <<"..", "a">>],
     [text |-> "etc/a", segments |-> <<"etc", "a">>],
     [text |-> ".cli-agent-backups/session", segments |-> BackupDirectorySegments],
     [text |-> ".cli-agent-backups/session/bk1",
      segments |-> BackupPathSegments("bk1")],
     [text |-> "d/../.cli-agent-backups/session/bk2",
      segments |-> <<"d", "..">> \o BackupPathSegments("bk2")]}

BackupAreaNext ==
    \/ /\ nextBackupId <= MaxBackups
       /\ \E p \in Paths : CreateBackupAPI(p)
    \/ /\ callCount < MaxTargeted
       /\ \E type \in {"read_file", "delete_file"}, target \in TargetPaths :
              ExecuteCommandAt(type, target)
    \/ \E p \in Paths : WriteOutside(p, File(<<>>))
    \/ \E n \in 1..MaxBackups : RestoreBackupAPI(BackupIds[n], NULL)
    \/ CleanupAPI(0, 0, FALSE)

BackupAreaSpec == BackupInit /\ [][BackupAreaNext]_vars

(***************************************************************************)
(* BatchSpec: create_file commands on distinct paths issued together, as   *)
(* the load tests do, in a fresh workspace.                                *)
(***************************************************************************)
\* two or three create_file intents on distinct paths
Batches ==
    {b \in UNION {[1..n -> {[Intent("create_file", p) EXCEPT
                                !.content = <<"x">>] : p \in Tree}] :
                     n \in 2..3} :
        \A i, j \in DOMAIN b : i # j => b[i].path # b[j].path}

BatchInit ==
    /\ fs = [p \in Tree |-> Absent]
    /\ backupHistory = <<>>
    /\ nextBackupId = 1
    /\ operationHistory = <<>>
    /\ maxHistorySize = MaxHistorySize
    /\ nextOpId = 1
    /\ operationMutex = FALSE
    /\ currentOperation = NoCurrent
    /\ calls = [s \in Slots |-> IdleCall]
    /\ undoRun = [p \in Procs |-> NoRun]
    /\ intPc = "idle"
    /\ callCount = 0
    /\ intCount = 0
    /\ now = 0
    /\ batch = <<>>
    /\ dryRunMode = FALSE
    /\ discussMode = FALSE
    /\ plannedOperations = <<>>
    /\ planRun = NoPlanRun
    /\ preImage = <<>>
    /\ event = Ev("init", "none")

BatchNext ==
    \/ /\ callCount < MaxBatches
       /\ \E intents \in Batches : IssueBatch(intents)
    \/ \E s \in Slots : RunPrimitive(s)
    \/ \E s \in Slots : BackupAfter(s)

BatchSpec == BatchInit /\ [][BatchNext]_vars

(***************************************************************************)
(* RetentionSpec: backups taken as time passes, and cleanup called with    *)
(* various limits.                                                         *)
(***************************************************************************)
MaxAges == 0..2

MaxCounts == 0..2

RetentionNext ==
    \/ /\ nextBackupId <= MaxRetained
       /\ CreateBackupAPI("a")
    \/ /\ now < MaxClock * TickMs
       /\ Tick
    \/ \E maxAge \in MaxAges, maxCount \in MaxCounts, dryRun \in BOOLEAN :
           CleanupAPI(maxAge, maxCount, dryRun)

RetentionSpec == BackupInit /\ [][RetentionNext]_vars

(***************************************************************************)
(* ShutdownSpec: create_file, write_file and undo commands given one after *)
(* the other, with the retention cleanup run between them.                 *)
(***************************************************************************)
ShutdownIntents ==
    {Intent("create_file", "b"),
     [Intent("write_file", "a") EXCEPT !.content = <<"x">>, !.overwrite = TRUE],
     Intent("undo", "a")}

\* cleanupBackups({maxAge: 0}) and the cleanup() of the service shutdown
CleanupOptions == {<<0, 100>>, <<24, 50>>}

ShutdownNext ==
    \/ /\ callCount < MaxMoves
       /\ \E s \in Slots, intent \in ShutdownIntents :
              ExecuteCommand(s, intent, FALSE)
    \/ \E s \in Slots : BackupBefore(s)
    \/ \E s \in Slots : RunPrimitive(s)
    \/ \E s \in Slots : BackupAfter(s)
    \/ \E s \in Slots : UndoIO(s)
    \/ \E o \in CleanupOptions : CleanupAPI(o[1], o[2], FALSE)

ShutdownSpec == Init /\ [][ShutdownNext]_vars

(***************************************************************************)
(* PlanSpec: operations queued in dry-run mode, shown with their analysis  *)
(* and executed with "go".                                                 *)
(***************************************************************************)
PlanIntents ==
    {[Intent(t, p) EXCEPT !.confirm = FALSE] :
        t \in {"create_file", "delete_file"}, p \in Paths}

PlanNext ==
    \/ /\ callCount + Len(plannedOperations) < MaxPlanned
       /\ \E intent \in PlanIntents, confirmed \in BOOLEAN :
              CLIExecuteCommand(1, intent, TRUE, confirmed)
    \/ ToggleDryRunMode
    \/ ToggleDiscussMode
    \/ ShowPlan
    \/ ExecutePlannedBegin
    \/ ExecutePlannedNext
    \/ ExecutePlannedEnd
    \/ \E s \in Slots : RunPrimitive(s)
    \/ \E s \in Slots : BackupAfter(s)

PlanSpec == Init /\ [][PlanNext]_vars

(***************************************************************************)
(* AnalysisSpec: intents are queued on a PlanManager and the plan is       *)
(* analysed, while the files of the working directory change.              *)
(***************************************************************************)
AnalysisWorkspaces ==
    {f \in [Tree -> {Absent, File(<<"x">>), Dir}] : \A p \in Nested : f[p] = Absent}

AnalysisIntents ==
    {[Intent("create_file", p) EXCEPT !.content = <<"x">>, !.overwrite = o] :
        p \in Paths, o \in BOOLEAN}
    \cup {Intent(t, p) : t \in {"create_directory", "delete_file", "write_file",
                                "read_file"}, p \in Paths}
    \cup {[Intent("delete_directory", p) EXCEPT !.recursive = r] :
        p \in Paths, r \in BOOLEAN}
    \cup {i \in {[Intent(t, p) EXCEPT !.dest = d, !.overwrite = o] :
                   t \in {"move_file", "copy_file"},
                   p \in Paths, d \in Paths, o \in BOOLEAN} : i.path # i.dest}
    \cup {i \in {[Intent("rename_file", p) EXCEPT !.dest = d, !.overwrite = o] :
                   p \in Paths, d \in Paths, o \in BOOLEAN} : i.path # i.dest}

AnalysisInit ==
    /\ fs \in AnalysisWorkspaces
    /\ backupHistory = <<>>
    /\ nextBackupId = 1
    /\ operationHistory = <<>>
    /\ maxHistorySize = MaxHistorySize
    /\ nextOpId = 1
    /\ operationMutex = FALSE
    /\ currentOperation = NoCurrent
    /\ calls = [s \in Slots |-> IdleCall]
    /\ undoRun = [p \in Procs |-> NoRun]
    /\ intPc = "idle"
    /\ callCount = 0
    /\ intCount = 0
    /\ now = 0
    /\ batch = <<>>
    /\ dryRunMode = FALSE
    /\ discussMode = FALSE
    /\ plannedOperations = <<>>
    /\ planRun = NoPlanRun
    /\ preImage = <<>>
    /\ event = Ev("init", "none")

AnalysisNext ==
    \/ /\ Len(plannedOperations) < MaxAnalysed
       /\ \E intent \in AnalysisIntents : AddOperation(intent)
    \/ GetDetailedAnalysis
    \/ ClearPlan
    \/ \E p \in Paths, obj \in {Absent, File(<<"x">>), Dir} : WriteOutside(p, obj)

AnalysisSpec == AnalysisInit /\ [][AnalysisNext]_vars

(***************************************************************************)
(* WriteUndoSpec: write_file, modify_file and truncate_file entries, with  *)
(* and without a backup reference, are recorded and undone, as the unit    *)
(* tests of undoWriteFile do.                                              *)
(***************************************************************************)
WriteRecordable ==
    {<<"write_file", p, d>> : p \in Paths, d \in {"bk1", NULL}}
    \cup {<<t, "a", d>> : t \in {"modify_file", "truncate_file"},
                          d \in {"bk1", NULL}}
    \cup {<<"write_file", "a", "bk2">>}

WriteUndoNext ==
    \/ /\ nextOpId <= MaxRecords
       /\ \E r \in WriteRecordable : RecordOperationAPI(r[1], r[2], r[3])
    \/ \E steps \in 1..MaxSteps : UndoOperationsAPI(steps)
    \/ UndoIO(ApiProc)
    \/ \E p \in Paths, obj \in {File(<<>>), Dir} : WriteOutside(p, obj)

WriteUndoSpec == LedgerInit /\ [][WriteUndoNext]_vars

(***************************************************************************)
(* CleanupFailureSpec: backups are taken and cleanup is called while the   *)
(* removal of some stored copies and metadata files fails.                 *)
(***************************************************************************)
IssuedIds == {BackupIds[n] : n \in 1..MaxCleaned}

CleanupFailureNext ==
    \/ /\ nextBackupId <= MaxCleaned
       /\ \E p \in Paths : CreateBackupAPI(p)
    \/ \E p \in Paths : WriteOutside(p, File(<<>>))
    \/ \E maxCount \in 0..1, dryRun \in BOOLEAN,
          copyFails \in SUBSET IssuedIds, metaFails \in SUBSET IssuedIds :
           CleanupFailingAPI(24, maxCount, dryRun, copyFails, metaFails)

CleanupFailureSpec == BackupInit /\ [][CleanupFailureNext]_vars

(***************************************************************************)
(* UndoProgressSpec: commands are executed one after the other, with no    *)
(* interruption, and undoOperations(1) is issued again and again between   *)
(* them and after them.  Every awaited call completes.                     *)
(***************************************************************************)
UndoableIntents == {i \in Intents : i.type \in MutatingTypes}

\* undoOperations(1) issued while no command is running
IssueUndo == ~operationMutex /\ InFlight = {} /\ UndoOperationsAPI(1)

UndoProgressNext ==
    \/ /\ callCount < MaxUndoable
       /\ undoRun[ApiProc].pc = "none"
       /\ \E intent \in UndoableIntents : ExecuteCommand(1, intent, FALSE)
    \/ BackupBefore(1)
    \/ RunPrimitive(1)
    \/ BackupAfter(1)
    \/ IssueUndo
    \/ UndoIO(ApiProc)

UndoProgressSpec ==
    /\ Init
    /\ [][UndoProgressNext]_vars
    /\ WF_vars(CallStep(1))
    /\ WF_vars(IssueUndo)
    /\ WF_vars(UndoIO(ApiProc))

(***************************************************************************)
(* Properties.                                                             *)
(***************************************************************************)
GateIdle == ~operationMutex /\ currentOperation = NoCurrent

GateBusy == operationMutex /\ currentOperation # NoCurrent

\* C1: in every reachable state at most one operation body started by
\* executeCommand is in flight.  Violated: handleInterruption clears the gate
\* while the interrupted body is still awaiting its I/O, and the next
\* executeCommand starts a second body.
AtMostOneBodyInFlight == Cardinality(InFlight) <= 1

GateReturnsToIdle ==
    /\ \A s \in Slots : (calls[s].pc # "idle") ~> (calls[s].pc = "idle")
    /\ [][\A s \in Slots :
             calls[s].pc # "idle" /\ calls'[s].pc = "idle" => GateIdle']_vars

\* a declined deletion has returned and left the gate Idle
GateReturnsToIdleWitness ==
    /\ event.kind = "finish"
    /\ event.outcome = "declined"
    /\ GateIdle
    /\ InFlight = {}


\* C4: when handleInterruption runs while the gate is Busy, whatever the
\* active operation, it has attempted one undoOperations(1) call by the time
\* it forces the gate Idle.  Violated: modify_file and copy_file (and the
\* read-only types) are not in the list handleInterruption consults, and the
\* gate is cleared without any undo attempt.
InterruptionAttemptsUndo ==
    event.kind = "interrupted" => event.undone /\ event.steps = 1

\* C5: in any step the ledger gains an entry exactly when a mutating
\* command returns success (one entry, after its primitive succeeded); a
\* rejected, failed or declined command leaves the ledger as it was.
Appended ==
    {i \in 1..Len(operationHistory') : operationHistory'[i].id >= nextOpId}

NewestFirst(hist, n) == [i \in 1..n |-> hist[Len(hist) + 1 - i].id]

AllSucceeded(results) == \A i \in 1..Len(results) : results[i].success

\* C6: when undoOperations(n) is called on a ledger holding at least n
\* entries and every reversal succeeds, the entries are reversed newest
\* first, the older ones are not attempted, and the ledger is left holding
\* exactly the older ones (for [A, B, C] and n = 2: C then B, leaving [A]).
LifoUndo ==
    /\ event.undone
    /\ Len(event.start) >= event.steps
    /\ AllSucceeded(event.results)
    => /\ event.tried = NewestFirst(event.start, event.steps)
       /\ event.after = SubSeq(event.start, 1, Len(event.start) - event.steps)

\* undoOperations(2) on three entries has reversed the two newest
LifoUndoWitness ==
    /\ event.undone
    /\ event.steps = 2
    /\ Len(event.start) = 3
    /\ AllSucceeded(event.results)
    /\ Len(event.results) = 2
    /\ event.after = <<event.start[1]>>

\* C7: when the last reversal attempted by undoOperations failed, the ledger
\* after the call equals the ledger as it was just before that attempt.
\* Violated: a command that runs on while handleInterruption awaits a
\* reversal records its entry in between, and the failed entry is pushed
\* back above it.
FailedUndoRestoresLedger ==
    /\ event.undone
    /\ event.tried # <<>>
    /\ ~Last(event.results).success
    => event.after = event.before

\* C8: the ledger never holds more than maxHistorySize entries.  Violated:
\* the push-back of a failed reversal is not bounded, and an entry recorded
\* while the reversal was awaited has already filled the ledger.
LedgerWithinBound == Len(operationHistory) <= maxHistorySize

\* C9 as stated: one result per attempted entry and no other result, also
\* when the ledger is empty.  Violated by the empty ledger.
OneResultPerAttempt ==
    event.undone => Len(event.results) = Len(event.tried)

\* C9 amended: undoOperations(n) on an empty ledger attempts nothing and
\* returns exactly one failure result; otherwise it returns one result per
\* attempted entry in the order attempted, attempts the newest entries
\* first, a failure is the last result, and when all succeed there are
\* min(n, ledger size) results.
UndoResultsPerAttempt ==
    event.undone =>
        IF event.start = <<>>
        THEN event.tried = <<>> /\ event.results = <<EmptyHistoryResult>>
        ELSE /\ Len(event.results) = Len(event.tried)
             /\ Len(event.tried) \in 1..Min(event.steps, Len(event.start))
             /\ event.tried = NewestFirst(event.start, Len(event.tried))
             /\ \A i \in 1..Len(event.results) :
                    /\ event.results[i].message =
                           event.start[Len(event.start) + 1 - i].type
                    /\ i < Len(event.results) => event.results[i].success
             /\ AllSucceeded(event.results) =>
                    Len(event.results) = Min(event.steps, Len(event.start))

\* undoOperations on an empty ledger has returned its one failure result
UndoResultsEmptyWitness ==
    /\ event.undone
    /\ event.start = <<>>
    /\ operationHistory = <<>>
    /\ Len(event.results) = 1
    /\ nextOpId > 1

\* C10: with no more edits recorded than the ledger bound, an undo command
\* that reverses a write_file or modify_file entry leaves the file with the
\* content that operation found (so j undos after k edits leave the content
\* of the first k - j edits).  Violated: an edit
\* interrupted after its backup records that backup after a later edit has
\* changed the file, and its reversal restores the older content.
UndoRestoresPreImage ==
    /\ nextOpId - 1 <= maxHistorySize
    /\ event.kind = "finish"
    /\ event.type = "undo"
    /\ event.undone
    /\ Len(event.tried) = 1
    /\ AllSucceeded(event.results)
    /\ event.results[1].message \in {"write_file", "modify_file"}
    => fs[preImage[event.tried[1]].path] = preImage[event.tried[1]].was

\* C11: an undo command given right after a successful move_file or
\* rename_file (it reverses the newest entry ever recorded) succeeds, puts
\* the object back at its original path as it was, and leaves nothing at the
\* path the operation had put it.  Violated: handleRenameFile records the
\* bare new name as targetPath, so for a file in a subdirectory the reversal
\* renames from the working directory instead of from the file's directory.
UndoMovesBack ==
    /\ event.kind = "finish"
    /\ event.type = "undo"
    /\ event.undone
    /\ event.tried = <<nextOpId - 1>>
    /\ event.results[1].message \in {"move_file", "rename_file"}
    /\ preImage[nextOpId - 1].path # preImage[nextOpId - 1].post
    => /\ event.results[1].success
       /\ fs[preImage[nextOpId - 1].path] = preImage[nextOpId - 1].was
       /\ fs[preImage[nextOpId - 1].post] = Absent

\* C12: when the reversal of a create_file or create_directory entry finds
\* its target already gone, it reports success and leaves the workspace as
\* it is, the entry is out of the ledger, and an undoOperations call with
\* steps left goes on to the entry beneath it.
CreationUndoIdempotent ==
    [][LET run == undoRun[ApiProc]
           after == undoRun'[ApiProc]
           results == IF after.pc = "io" THEN after.results ELSE event'.results
           tried == IF after.pc = "io" THEN after.tried ELSE event'.tried
       IN  /\ run.pc = "io"
           /\ after # run
           /\ run.op.type \in {"create_file", "create_directory"}
           /\ fs[run.op.targetPath] = Absent
           => /\ results[Len(run.results) + 1].success
              /\ results[Len(run.results) + 1].detail = "already_absent"
              /\ fs' = fs
              /\ \A i \in 1..Len(operationHistory') :
                     operationHistory'[i].id # run.op.id
              /\ run.left > 0 /\ operationHistory # <<>> =>
                     /\ Len(tried) = Len(run.tried) + 1
                     /\ tried[Len(tried)] = Last(operationHistory).id
      ]_vars

\* undoOperations(2) found the newest entry's created file already gone,
\* reported success for it and has gone on to reverse the entry beneath
CreationUndoIdempotentWitness ==
    /\ event.undone
    /\ event.steps = 2
    /\ Len(event.results) = 2
    /\ event.results[1].success
    /\ event.results[1].message = "create_file"
    /\ event.results[1].detail = "already_absent"
    /\ event.results[2].success
    /\ event.after = SubSeq(event.start, 1, Len(event.start) - 2)

RefersToBackup(op) ==
    /\ op.originalData \in DOMAIN backupHistory
    /\ backupHistory[op.originalData].sourcePath = op.targetPath

CopyIntact(entry) ==
    /\ entry.copy.kind = "file"
    /\ sha256(entry.copy.data) = entry.checksum

\* C14: restoreBackup of an indexed backup whose stored copy no longer
\* matches the recorded checksum returns a failure and leaves the restore
\* target as it found it.
TamperedCopyRefused ==
    /\ event.api.op = "restoreBackup"
    /\ event.api.id \in DOMAIN backupHistory
    /\ ~CopyIntact(backupHistory[event.api.id])
    => /\ event.outcome = "failed"
       /\ fs[event.api.path] = event.api.found

\* restoreBackup was refused for a stored copy with other bytes than those
\* backed up; the target, which holds different content, kept it
TamperedCopyRefusedWitness ==
    /\ event.api.op = "restoreBackup"
    /\ event.api.id \in DOMAIN backupHistory
    /\ backupHistory[event.api.id].copy = File(<<>>)
    /\ backupHistory[event.api.id].checksum = sha256(<<"x">>)
    /\ event.outcome = "failed"
    /\ event.api.found = File(<<"x">>)
    /\ fs[event.api.path] = File(<<"x">>)

\* C15: restoreBackup of a backup whose stored copy nobody touched since
\* createBackup succeeds and leaves the restore target, when it is not a
\* directory, with the content the source had at backup time.
BackupRoundTrip ==
    /\ event.api.op = "restoreBackup"
    /\ event.api.id \in DOMAIN backupHistory
    /\ ~preImage[event.api.id].touched
    /\ event.api.found.kind # "dir"
    => /\ event.outcome = "success"
       /\ fs[event.api.path] = preImage[event.api.id].was

\* a backup of content "x" was restored over a target that had since been
\* emptied
BackupRoundTripWitness ==
    /\ event.api.op = "restoreBackup"
    /\ event.api.id \in DOMAIN backupHistory
    /\ ~preImage[event.api.id].touched
    /\ preImage[event.api.id].was = File(<<"x">>)
    /\ event.api.found = File(<<>>)
    /\ event.outcome = "success"
    /\ fs[event.api.path] = File(<<"x">>)

\* the records of index younger than maxAge hours at time t
Younger(index, t, maxAge) ==
    {id \in DOMAIN index : t - index[id].timestamp < maxAge * HourMs}

\* C18: cleanup reports as kept the maxCount most recent records among
\* those younger than maxAge and as deleted every other record, the two
\* lists disjoint and together all the records; without dryRun the index is
\* left with exactly the kept records, with dryRun it is left as it was.
CleanupRetainsRecentAndYoung ==
    event.api.op = "cleanup" =>
        LET index == event.api.index
            kept == Range(event.api.kept)
            deleted == Range(event.api.deleted)
            young == Younger(index, event.api.now, event.api.maxAge)
        IN  /\ kept \subseteq young
            /\ Cardinality(kept) = Min(event.api.maxCount, Cardinality(young))
            /\ \A k \in kept, d \in DOMAIN index \ kept :
                   index[k].timestamp >= index[d].timestamp
            /\ kept \cap deleted = {}
            /\ kept \cup deleted = DOMAIN index
            /\ Len(event.api.kept) = Cardinality(kept)
            /\ Len(event.api.deleted) = Cardinality(deleted)
            /\ IF event.api.dryRun
               THEN backupHistory = index
               ELSE backupHistory = [id \in kept |-> index[id]]

\* cleanup(1 hour, 1, dryRun = false) on three records kept the newest and
\* deleted one record for its age and one for the count
CleanupRetainsWitness ==
    /\ event.api.op = "cleanup"
    /\ ~event.api.dryRun
    /\ event.api.maxCount = 1
    /\ Cardinality(DOMAIN event.api.index) = 3
    /\ Len(event.api.kept) = 1
    /\ Cardinality(Younger(event.api.index, event.api.now, event.api.maxAge)) = 2
    /\ DOMAIN backupHistory = Range(event.api.kept)

\* cleanup with dryRun reported records as deleted and left them indexed
CleanupDryRunWitness ==
    /\ event.api.op = "cleanup"
    /\ event.api.dryRun
    /\ Len(event.api.deleted) = 2
    /\ Len(event.api.kept) = 1
    /\ Cardinality(DOMAIN backupHistory) = 3

\* the ids createBackup has issued and cleanup has since deleted
DeletedBackups ==
    {BackupIds[n] : n \in 1..(nextBackupId - 1)} \ DOMAIN backupHistory

\* the reversal of op completes in this step with a failure, the workspace
\* unchanged and op back on top of the ledger
ReversalFailsKeepingEntry(p) ==
    /\ undoRun'[p].pc = "none"
    /\ ~event'.results[Len(event'.results)].success
    /\ fs' = fs
    /\ operationHistory' = Append(operationHistory, undoRun[p].op)

ModifyNeedsBackup ==
    [][/\ \A s \in Slots :
              /\ calls[s].pc = "backup"
              /\ calls[s].intent.type = "modify_file"
              /\ ~createBackup(fs, nextBackupId, calls[s].intent.path, now).success
              /\ calls'[s] # calls[s]
              => /\ calls'[s] = IdleCall
                 /\ event'.kind = "finish"
                 /\ event'.outcome = "failed"
                 /\ fs' = fs
                 /\ operationHistory' = operationHistory
                 /\ GateIdle'
       /\ callCount' = callCount + 1 /\ event'.type = "modify_file" =>
              \/ /\ event'.kind = "accept"
                 /\ existsSync(fs, currentOperation'.intent.path)
              \/ /\ event'.kind = "finish"
                 /\ event'.outcome = "failed"
                 /\ calls' = calls
                 /\ fs' = fs
                 /\ operationHistory' = operationHistory
                 /\ GateIdle'
      ]_vars

\* a modify_file command has failed before any backup was ever taken: the
\* workspace and the ledger are as at the start and the gate is Idle
ModifyNeedsBackupWitness ==
    /\ event.kind = "finish"
    /\ event.type = "modify_file"
    /\ event.outcome = "failed"
    /\ nextBackupId = 1
    /\ fs = InitWorkspace
    /\ operationHistory = <<>>
    /\ GateIdle

CreateThenDelete(operations, path) ==
    \E i, j \in 1..Len(operations) :
        /\ i < j
        /\ operations[i].type = "create_file" /\ operations[i].path = path
        /\ operations[j].type = "delete_file" /\ operations[j].path = path

\* since operation firstOp, a create_file and then a delete_file command
\* on path have both succeeded
BothRan(path, firstOp) ==
    \E i, j \in DOMAIN preImage :
        /\ firstOp <= i /\ i < j
        /\ preImage[i].cmd = "create_file" /\ preImage[i].path = path
        /\ preImage[j].cmd = "delete_file" /\ preImage[j].path = path

\* the analysis shown for a plan with create_file X then delete_file X has
\* a conflict naming the several operations on X
PlanConflictReported ==
    event.api.op = "showPlan" =>
        \A path \in Paths :
            CreateThenDelete(event.api.operations, path) =>
                \E c \in event.api.conflicts :
                    c.kind = "multiple" /\ c.path = path

\* C20: the analysis of a plan with create_file X then delete_file X
\* reports a global conflict on X, and an execution of that plan in which
\* both operations ran on X has shown a conflict on X.
PlanConflictNotSilent ==
    /\ PlanConflictReported
    /\ event.api.op = "executePlannedOperations" =>
           \A path \in Paths :
               /\ CreateThenDelete(event.api.operations, path)
               /\ BothRan(path, event.api.firstOp)
               => \E c \in event.api.conflicts : c.path = path

\* the step after which an execution of the plan has finished
PlanExecutionFinishes == event'.api.op = "executePlannedOperations"

\* C21: executePlannedOperations hands the queued intents to executeCommand
\* one by one in enqueue order, each after the gate was released by the
\* one before; when it finishes every intent of the queue has been handed
\* over once, also after failures, and the queue is empty.
PlanRunsEveryIntentOnce ==
    [][/\ planRun.pc = "run" /\ callCount' = callCount + 1 =>
              LET i == callCount - planRun.base + 1
              IN  /\ GateIdle
                  /\ i <= Len(planRun.operations)
                  /\ event'.type = planRun.operations[i].type
                  /\ event'.kind = "accept" =>
                         calls'[1].intent = planRun.operations[i]
       /\ PlanExecutionFinishes =>
              /\ plannedOperations' = <<>>
              /\ plannedOperations # <<>> =>
                     /\ planRun.pc = "run"
                     /\ callCount - planRun.base = Len(planRun.operations)
                     /\ plannedOperations = planRun.operations]_vars

\* what does hold: the intents that were in the queue when the execution
\* began are handed over in order, and the queue is empty at the end
PlanSnapshotRunsInOrder ==
    [][/\ planRun.pc = "run" /\ callCount' = callCount + 1 =>
              LET i == callCount - planRun.base + 1
              IN  /\ GateIdle
                  /\ i <= Len(planRun.operations)
                  /\ event'.type = planRun.operations[i].type
                  /\ event'.kind = "accept" =>
                         calls'[1].intent = planRun.operations[i]
       /\ PlanExecutionFinishes =>
              /\ plannedOperations' = <<>>
              /\ event'.outcome # "rejected" =>
                     /\ planRun.pc = "run"
                     /\ callCount - planRun.base = Len(planRun.operations)]_vars

\* a step of CLIService.executeCommand: it queues, displays help, is
\* declined, or calls CommandHandler.executeCommand (accepted or rejected)
CLIExecuteCommandStep ==
    /\ ~PlanLoopTurn
    /\ \/ event'.kind = "plan" /\ event'.type # "none"
       \/ event'.kind \in {"cli", "reject"}
       \/ callCount' = callCount + 1

\* in dry-run mode the step appends one intent and touches nothing else
OnlyQueued ==
    /\ Len(plannedOperations') = Len(plannedOperations) + 1
    /\ Front(plannedOperations') = plannedOperations
    /\ Last(plannedOperations').type = event'.type
    /\ UNCHANGED <<fs, operationHistory, backupHistory, operationMutex,
                   currentOperation, calls, callCount>>

\* C22 as stated: in dry-run mode executeCommand only appends the intent to
\* the plan queue; with dry-run mode off the queue is unchanged and the
\* intent is executed at once (help is displayed; the gate may turn it away).
DryRunQueuesElseExecutes ==
    [][CLIExecuteCommandStep =>
           IF dryRunMode THEN OnlyQueued
           ELSE /\ UNCHANGED plannedOperations
                /\ \/ callCount' = callCount + 1
                   \/ event'.kind = "reject"
                   \/ event'.type = "help"]_vars

\* C22 amended: in dry-run mode executeCommand only appends the intent to
\* the plan queue; with dry-run mode off the queue is unchanged and the
\* intent is executed at once, unless discuss mode is on and the user
\* answers no to the confirmation of a modifying intent, in which case
\* nothing at all changes.
DryRunQueuesElseExecutesUnlessDeclined ==
    [][CLIExecuteCommandStep =>
           IF dryRunMode THEN OnlyQueued
           ELSE /\ UNCHANGED plannedOperations
                /\ \/ callCount' = callCount + 1
                   \/ event'.kind = "reject"
                   \/ event'.type = "help"
                   \/ /\ discussMode
                      /\ event'.outcome = "declined"
                      /\ isModifyingOperation([type |-> event'.type])
                      /\ UNCHANGED <<fs, operationHistory, backupHistory,
                                     operationMutex, currentOperation, calls>>]_vars

\* an intent was queued in dry-run mode behind another one while an
\* operation that ran at once before had left an entry in the ledger
DryRunQueuesWitness ==
    /\ dryRunMode
    /\ event.kind = "plan" /\ event.type # "none"
    /\ Len(plannedOperations) >= 2
    /\ operationHistory # <<>>

\* the number of entries of the ledger that satisfy Counted
CountEntries(Counted(_)) ==
    Cardinality({i \in 1..Len(operationHistory) : Counted(operationHistory[i])})

CreationEntry(op) == op.type \in {"create_file", "create_directory"}

DeletionEntryWithData(op) ==
    op.type \in {"delete_file", "delete_directory"} /\ op.originalData # NULL

DeleteFileEntryWithData(op) ==
    op.type = "delete_file" /\ op.originalData # NULL

\* C23 as stated: undoableOperations is the number of creation entries plus
\* the number of deletion entries that carry reversal data; it never
\* exceeds totalOperations, which is the length of the ledger.
UndoableCountsCreationsAndDeletions ==
    event.api.op = "getStatistics" =>
        /\ event.api.stats.undoableOperations =
               CountEntries(CreationEntry) + CountEntries(DeletionEntryWithData)
        /\ event.api.stats.undoableOperations <= event.api.stats.totalOperations
        /\ event.api.stats.totalOperations = Len(operationHistory)

\* C23 amended: undoableOperations is the number of create_file and
\* create_directory entries plus the number of delete_file entries whose
\* originalData is not null; a delete_directory entry is not counted even
\* though it carries the path to recreate.  It never exceeds
\* totalOperations, which is the length of the ledger.
UndoableCountsCreationsAndFileDeletions ==
    event.api.op = "getStatistics" =>
        /\ event.api.stats.undoableOperations =
               CountEntries(CreationEntry) + CountEntries(DeleteFileEntryWithData)
        /\ event.api.stats.undoableOperations <= event.api.stats.totalOperations
        /\ event.api.stats.totalOperations = Len(operationHistory)

\* statistics read from a ledger holding a counted creation, a counted
\* file deletion and an entry that is not counted
UndoableCountWitness ==
    /\ event.api.op = "getStatistics"
    /\ event.api.stats.undoableOperations = 2
    /\ event.api.stats.totalOperations = 3
    /\ CountEntries(CreationEntry) = 1
    /\ CountEntries(DeleteFileEntryWithData) = 1

\* the path a command named lies inside the backup directory
InsideBackupDirectory(segments) ==
    LET relativePath == Normalize(<<>>, segments)
    IN  /\ Len(relativePath) >= Len(BackupDirectorySegments)
        /\ SubSeq(relativePath, 1, Len(BackupDirectorySegments)) =
               BackupDirectorySegments

\* C24: an executeCommand whose path lies inside the backup directory is
\* turned away without effect, and the stored copies and the index change
\* only in createBackup and cleanup.
BackupAreaNotTargetable ==
    [][/\ event'.api.op = "executeCommand" =>
              \A target \in TargetPaths :
                  /\ event'.api.path = target.text
                  /\ InsideBackupDirectory(target.segments)
                  => /\ event'.outcome = "failed"
                     /\ UNCHANGED <<fs, backupHistory, operationHistory>>
       /\ backupHistory' # backupHistory =>
              event'.api.op \in {"createBackup", "cleanup"}]_vars

\* what does hold: paths that leave the working directory or name a system
\* directory are turned away without effect
OutsidePathsRejected ==
    [][event'.api.op = "executeCommand" =>
           \A target \in TargetPaths :
               /\ event'.api.path = target.text
               /\ \/ Normalize(<<>>, target.segments)[1] = ".."
                  \/ hasDangerousPattern(target.segments)
               => /\ event'.outcome = "failed"
                  /\ UNCHANGED <<fs, backupHistory, operationHistory>>]_vars

\* nothing is in flight
AllReturned == \A s \in Slots : calls[s].pc = "idle"

BatchIssue ==
    [][batch' # batch =>
           /\ batch'[1].accepted <=> ~operationMutex
           /\ UNCHANGED <<fs, operationHistory, backupHistory>>]_vars

RecordedInOrder ==
    \A i, j \in 1..Len(operationHistory) :
        i < j => operationHistory[i].id < operationHistory[j].id

\* the undoOperations invocations suspended at await undoSingleOperation
SuspendedUndos == {p \in Procs : undoRun[p].pc = "io"}

\* C26: the ledger is always ordered oldest to newest by time of
\* recording, and while an undoOperations invocation is suspended no entry
\* is recorded and no other undoOperations invocation pops an entry.
LedgerOrderedAndSerial ==
    /\ []RecordedInOrder
    /\ [][SuspendedUndos # {} =>
              /\ nextOpId' = nextOpId
              /\ \A q \in Procs \ SuspendedUndos : undoRun'[q].pc # "io"]_vars

\* the entries handleInterruption takes off the ledger in this step
PoppedByInterrupt ==
    {i \in 1..Len(operationHistory) :
        /\ intCount' = intCount + 1
        /\ \A j \in 1..Len(operationHistory') :
               operationHistory'[j].id # operationHistory[i].id}

\* C27: an interrupt pops, and so reverses, only entries recorded by the
\* operation that is active when it arrives, never an entry of an earlier,
\* completed operation.
InterruptReversesOnlyActive ==
    [][\A i \in PoppedByInterrupt :
           /\ currentOperation # NoCurrent
           /\ preImage[operationHistory[i].id].call =
                  currentOperation.startTime]_vars

\* the path whose previous content a mutating command destroys
TargetOf(intent) ==
    IF intent.type \in {"copy_file", "move_file", "rename_file"}
    THEN intent.dest ELSE intent.path

\* the primitive of the call in slot s executes in this step
PrimitiveExecutes(s) == calls[s].pc = "prim" /\ calls'[s].pc # "prim"

BacksUpFirst(intent) ==
    \/ intent.type \in {"write_file", "modify_file"}
    \/ intent.type = "copy_file" /\ intent.overwrite

ReportsCall(s) ==
    /\ operationMutex
    /\ currentOperation = [intent |-> calls[s].intent,
                           startTime |-> calls[s].startTime]

\* slot s ends its invocation in this step (the finally block has run)
Finishes(s) == calls[s].pc # "idle" /\ calls'[s].pc = "idle"

\* the gate reports exactly the bodies in flight
GateReportsExecutingState ==
    /\ \A s \in InFlight : ReportsCall(s)
    /\ ~GateIdle => \E s \in InFlight : ReportsCall(s)

\* a finishing invocation that clears the gate clears its own
ReleaseClearsOwnGate ==
    [][\A s \in Slots :
           Finishes(s) /\ ~GateIdle /\ GateIdle' => ReportsCall(s)]_vars

\* C29: in every reachable state the gate reports what is executing:
\* getCurrentOperation() is non-null and names operation X exactly when the
\* body of X has been accepted and has not yet finished, and the release
\* performed when an operation finishes never clears the gate while a
\* different operation is executing.  Violated: handleInterruption clears
\* the gate while the interrupted body is still in flight, a second
\* operation is then accepted, and the finally block of the first clears
\* the gate that the second holds.
GateReportsExecuting == []GateReportsExecutingState /\ ReleaseClearsOwnGate

\* C30: undo makes progress.  From any ledger produced by successfully
\* executed operations, with the backups intact and the filesystem
\* primitives succeeding, issuing undo again and again eventually empties
\* the ledger: no recorded entry blocks the entries beneath it for ever.
\* Violated: write_file to a path that did not exist records an entry with
\* no backup reference, whose undo fails every time and is pushed back.
UndoEmptiesLedger == []<>(operationHistory = <<>>)

\* the last step was an analysis of a plan
Analysed == event.api.op = "getDetailedAnalysis"

\* the snapshot the i-th intent of the analysed plan is to be analysed
\* against: the states captured before, with the afterState of the impacts
\* 1..i-1 folded in
SimulatedBefore(i) ==
    simulateAfterState(event.api.analysis.filesystemBefore,
                       SubSeq(event.api.analysis.operations, 1, i - 1))

\* C31: in analyzePlan the state against which the i-th intent is analysed
\* is the simulated snapshot obtained by applying the intents before it to
\* the captured before snapshot, so a later intent sees the creations and
\* deletions of earlier intents of the same plan.  Violated: every intent
\* is analysed against the disk as it is.
LaterIntentSeesEarlier ==
    Analysed =>
        \A i \in DOMAIN event.api.analysis.operations :
            event.api.analysis.operations[i].beforeState =
                SimulatedBefore(i)[event.api.analysis.operations[i].targetPath]

\* what does hold: the first intent is analysed against the captured state
FirstIntentSeesBefore ==
    Analysed /\ event.api.analysis.operations # <<>> =>
        event.api.analysis.operations[1].beforeState =
            event.api.analysis.filesystemBefore[
                event.api.analysis.operations[1].targetPath]

\* the paths an intent refers to: its path, or its source path and its
\* destination path
ReferencedPaths(operation) ==
    IF operation.type \in {"move_file", "copy_file"}
    THEN {operation.path, operation.dest}
    ELSE {operation.path}

\* the intents of the analysed plan that refer to path
Referring(path) ==
    {i \in DOMAIN event.api.operations :
        path \in ReferencedPaths(event.api.operations[i])}

GlobalConflictOn(path) ==
    \E c \in event.api.analysis.conflicts :
        c.kind = "multiple" /\ c.path = path

\* C32: analyzePlan reports a global conflict for every path referenced by
\* more than one intent of the plan, whether it appears as path, source
\* path or destination path, and none for a path referenced by one intent
\* only.  Violated: the impacts are grouped by targetPath, which for a move
\* or a copy is the destination only.
GlobalConflictPerReferencedPath ==
    Analysed =>
        \A path \in Paths :
            GlobalConflictOn(path) <=> Cardinality(Referring(path)) > 1

\* what does hold: a global conflict is reported exactly for the paths that
\* are the targetPath of more than one intent, and never for a path that
\* fewer than two intents refer to
GlobalConflictPerTargetPath ==
    Analysed =>
        \A path \in Paths :
            /\ GlobalConflictOn(path) <=>
                   Cardinality({i \in DOMAIN event.api.operations :
                       extractTargetPath(event.api.operations[i]) = path}) > 1
            /\ GlobalConflictOn(path) => Cardinality(Referring(path)) > 1

\* the impact the analysis holds for the i-th intent of the analysed plan
ImpactOf(i) == event.api.analysis.operations[i]

\* a move_file, rename_file or copy_file intent
Transfers(operation) ==
    operation.type \in {"move_file", "rename_file", "copy_file"}

\* the destination of a transfer: destinationPath, or newName beside path
DestinationOf(operation) ==
    IF operation.type = "rename_file"
    THEN join(dirname(operation.path), operation.dest)
    ELSE operation.dest

\* C33: for a move_file, rename_file or copy_file intent the analysis
\* records a conflict exactly when the source does not exist or the
\* destination path itself exists and overwrite is not set; a move or copy
\* whose source exists and whose destination does not exist yields no
\* conflict, even when the parent directory of the destination exists.
\* Violated: analyzeMove looks at the directory of the destination of a
\* move_file instead of the destination.
TransferConflictExact ==
    Analysed =>
        \A i \in DOMAIN event.api.operations :
            LET operation == event.api.operations[i]
            IN  Transfers(operation) =>
                    (ImpactOf(i).conflicts # {} <=>
                        \/ ~existsSync(fs, operation.path)
                        \/ /\ existsSync(fs, DestinationOf(operation))
                           /\ ~operation.overwrite)

\* what does hold: the equivalence for rename_file and copy_file
TransferConflictExactButMove ==
    Analysed =>
        \A i \in DOMAIN event.api.operations :
            LET operation == event.api.operations[i]
            IN  Transfers(operation) /\ operation.type # "move_file" =>
                    (ImpactOf(i).conflicts # {} <=>
                        \/ ~existsSync(fs, operation.path)
                        \/ /\ existsSync(fs, DestinationOf(operation))
                           /\ ~operation.overwrite)

\* the i-th intent of the analysed plan is a create_file on a path that
\* exists
CreatesOnExisting(i) ==
    /\ event.api.operations[i].type = "create_file"
    /\ existsSync(fs, event.api.operations[i].path)

\* the classification and the counting C34 and its amendment share
CreateOnExistingClassified(i) ==
    LET operation == event.api.operations[i]
        summary == event.api.analysis.summary
    IN  /\ ImpactOf(i).impactType =
               IF operation.overwrite THEN "modify" ELSE "create"
        /\ ~operation.overwrite =>
               \E c \in ImpactOf(i).conflicts :
                   c.kind = "exists" /\ c.path = operation.path
        /\ Len(event.api.operations) = 1 =>
               /\ summary.modifies = IF operation.overwrite THEN 1 ELSE 0
               /\ summary.creates = IF operation.overwrite THEN 0 ELSE 1

\* C34: for a create_file intent on a path that already exists the analysis
\* records a conflict when overwrite is not allowed; when overwrite is
\* allowed it classifies the impact as modify, counted under modifies and
\* not under creates, and records no conflict for it.
CreateOverwriteNoConflict ==
    Analysed =>
        \A i \in DOMAIN event.api.operations :
            CreatesOnExisting(i) =>
                /\ CreateOnExistingClassified(i)
                /\ event.api.operations[i].overwrite =>
                       ImpactOf(i).conflicts = {}

\* C34 amended: for a create_file intent on a path that already exists the
\* analysis records the conflict "already exists" when overwrite is not
\* allowed; when overwrite is allowed it classifies the impact as modify,
\* counted under modifies and not under creates, and records the conflict
\* "will be overwritten" for it, and no other.
CreateOverwriteFlagged ==
    Analysed =>
        \A i \in DOMAIN event.api.operations :
            CreatesOnExisting(i) =>
                /\ CreateOnExistingClassified(i)
                /\ event.api.operations[i].overwrite =>
                       ImpactOf(i).conflicts =
                           {Conflict("overwritten",
                                     event.api.operations[i].path,
                                     event.api.operations[i])}

\* a plan holding only an overwriting create_file of an existing file has
\* been analysed: one modification, no creation, one conflict
CreateOverwriteWitness ==
    /\ Analysed
    /\ Len(event.api.operations) = 1
    /\ CreatesOnExisting(1)
    /\ event.api.operations[1].overwrite
    /\ fs[event.api.operations[1].path].kind = "file"
    /\ ImpactOf(1).impactType = "modify"
    /\ event.api.analysis.summary.modifies = 1
    /\ event.api.analysis.summary.creates = 0
    /\ Cardinality(event.api.analysis.conflicts) = 1

\* C35: plan analysis is read-only and stateless: getDetailedAnalysis
\* leaves the plan queue, the filesystem, the undo ledger, the backup index
\* and the gate unchanged, and its result is the analysis of the current
\* queue against the current filesystem, whatever was analysed before.
AnalysisReadOnly ==
    [][event'.api.op = "getDetailedAnalysis" =>
           /\ UNCHANGED <<plannedOperations, fs, operationHistory, nextOpId,
                          backupHistory, nextBackupId, operationMutex,
                          currentOperation, calls, planRun>>
           /\ event'.api.operations = plannedOperations
           /\ event'.api.analysis = analyzePlan(plannedOperations, fs)
           /\ event'.api.analysis.totalOperations = Len(plannedOperations)
           /\ \A p \in DOMAIN event'.api.analysis.filesystemBefore :
                  event'.api.analysis.filesystemBefore[p] = getFileState(fs, p)]_vars

\* a full plan has been analysed, with conflicts found, and is still queued
AnalysisReadOnlyWitness ==
    /\ Analysed
    /\ Len(plannedOperations) = MaxAnalysed
    /\ event.api.operations = plannedOperations
    /\ event.api.analysis.conflicts # {}
    /\ event.api.analysis.filesystemAfter # event.api.analysis.filesystemBefore

\* the entries undoWriteFile reverses
RestoredTypes == {"write_file", "modify_file", "truncate_file"}

\* an entry of those types that names no backup
NamesNoBackup(op) == op.type \in RestoredTypes /\ op.originalData = NULL

\* C36: undoing a write_file, modify_file or truncate_file entry restores
\* the backup named by the entry's reversal data onto the entry's target
\* path; when the reversal data is null the undo fails with a no-backup
\* error, nothing is restored or written, and the entry stays in the ledger.
UndoWriteRestoresNamedBackup ==
    /\ [](\A p \in Procs : undoRun[p].pc = "io" => ~NamesNoBackup(undoRun[p].op))
    /\ [][/\ \A p \in Procs :
                 (/\ undoRun[p].pc = "io"
                  /\ undoRun[p].op.type \in RestoredTypes
                  /\ undoRun'[p] # undoRun[p]) =>
                     LET op == undoRun[p].op
                         r == restoreBackup(backupHistory, fs, op.originalData,
                                            op.targetPath)
                     IN  /\ fs' = r.fs
                         /\ backupHistory' = backupHistory
                         /\ r.success =>
                                /\ fs'[op.targetPath] =
                                       backupHistory[op.originalData].copy
                                /\ \A q \in Tree \ {op.targetPath} :
                                       fs'[q] = fs[q]
                                /\ \A i \in DOMAIN operationHistory' :
                                       operationHistory'[i].id # op.id
                         /\ ~r.success =>
                                /\ fs' = fs
                                /\ operationHistory' = Append(operationHistory, op)
          /\ (/\ undoRun[ApiProc].pc = "none"
              /\ event'.kind \in {"undo_call", "undo_return"}
              /\ operationHistory # <<>>
              /\ NamesNoBackup(Last(operationHistory))) =>
                 /\ event'.kind = "undo_return"
                 /\ event'.results =
                        <<UndoResult(FALSE, Last(operationHistory).type)>>
                 /\ UNCHANGED <<fs, backupHistory, operationHistory, undoRun>>]_vars

\* an undo has restored the backup onto path b, which is not the path the
\* backup was taken from, and the entry has left the ledger
UndoWriteRestoresWitness ==
    /\ event.kind = "undo_return"
    /\ event.results # <<>>
    /\ Last(event.results).success
    /\ Last(event.results).message \in RestoredTypes
    /\ fs["b"] = backupHistory["bk1"].copy
    /\ backupHistory["bk1"].sourcePath = "a"
    /\ fs["a"] # fs["b"]
    /\ Len(operationHistory) < Len(event.start)

\* an undo of an entry without a backup reference has failed and the entry
\* is still the last of the ledger
UndoWriteNoBackupWitness ==
    /\ event.kind = "undo_return"
    /\ event.results # <<>>
    /\ ~Last(event.results).success
    /\ operationHistory # <<>>
    /\ NamesNoBackup(Last(operationHistory))
    /\ Last(operationHistory).id = Last(event.tried)

\* the entries undoDeleteFile and undoDeleteDirectory reverse
DeletionTypes == {"delete_file", "delete_directory"}

\* what the reversal of a deletion is to leave at the target path
Recreated(type) == IF type = "delete_file" THEN File(<<>>) ELSE Dir

\* the reversal of the deletion entry popped by process p completes
DeletionUndoCompletes(p) ==
    /\ undoRun[p].pc = "io"
    /\ undoRun[p].op.type \in DeletionTypes
    /\ undoRun'[p] # undoRun[p]

\* undoOperations is called with a deletion entry last in the ledger
DeletionUndoIssued ==
    /\ undoRun[ApiProc].pc = "none"
    /\ event'.kind \in {"undo_call", "undo_return"}
    /\ operationHistory # <<>>
    /\ Last(operationHistory).type \in DeletionTypes

\* C37: undoing a delete_file entry reports success and leaves a file with
\* empty content at the target path; undoing a delete_directory entry
\* reports success and leaves an empty directory at the target path.
\* Violated: the delete_file entry that copy_file records without a backup
\* reference fails to undo.
DeletionUndoRecreates ==
    [][/\ \A p \in Procs :
              DeletionUndoCompletes(p) =>
                  /\ fs'[undoRun[p].op.targetPath] = Recreated(undoRun[p].op.type)
                  /\ \A i \in DOMAIN operationHistory' :
                         operationHistory'[i].id # undoRun[p].op.id
       /\ DeletionUndoIssued =>
              /\ undoRun'[ApiProc].pc = "io"
              /\ undoRun'[ApiProc].op = Last(operationHistory)]_vars

\* another kind of object stands where the deletion is to be reversed
\* (writeFile on a directory, mkdir on a file)
RecreationRefused(op) ==
    fs[op.targetPath].kind = IF op.type = "delete_file" THEN "dir" ELSE "file"

\* what does hold: the reversal of a deletion entry that carries reversal
\* data leaves a file with empty content, or an empty directory, at the
\* target path and changes no other path, unless an object of the other
\* kind stands there, when it fails and the entry is pushed back; the
\* reversal of a deletion entry whose reversal data is null fails at once,
\* nothing is written and the entry stays in the ledger.
DeletionUndoRecreatesWithData ==
    /\ [](\A p \in Procs :
              undoRun[p].pc = "io" /\ undoRun[p].op.type \in DeletionTypes =>
                  undoRun[p].op.originalData # NULL)
    /\ [][/\ \A p \in Procs :
                 DeletionUndoCompletes(p) =>
                     LET op == undoRun[p].op
                     IN  IF RecreationRefused(op)
                         THEN /\ fs' = fs
                              /\ operationHistory' = Append(operationHistory, op)
                         ELSE /\ fs'[op.targetPath] = Recreated(op.type)
                              /\ \A q \in Tree \ {op.targetPath} : fs'[q] = fs[q]
                              /\ \A i \in DOMAIN operationHistory' :
                                     operationHistory'[i].id # op.id
          /\ DeletionUndoIssued =>
                 IF Last(operationHistory).originalData = NULL
                 THEN /\ event'.kind = "undo_return"
                      /\ event'.results =
                             <<UndoResult(FALSE, Last(operationHistory).type)>>
                      /\ UNCHANGED <<fs, operationHistory, undoRun>>
                 ELSE /\ undoRun'[ApiProc].pc = "io"
                      /\ undoRun'[ApiProc].op = Last(operationHistory)]_vars

\* the undo of the entry of a delete_file command has recreated the file,
\* empty, where a file with content had been deleted
DeletionUndoWitness ==
    /\ event.kind = "undo_return"
    /\ event.results # <<>>
    /\ Last(event.results).success
    /\ Last(event.results).message = "delete_file"
    /\ fs["a"] = File(<<>>)

\* the last step was a cleanup in which deletions could fail
CleanedUp == event.api.op = "cleanupFailing"

\* the records the pass selected for deletion
SelectedForDeletion == DOMAIN event.api.index \ Range(event.api.kept)

\* a record of the index whose stored copy is gone
CopyRemoved(id) ==
    /\ id \in DOMAIN backupHistory
    /\ backupHistory[id].copy = Absent
    /\ event.api.index[id].copy # Absent

\* the pass goes on after a failure: every record selected is either
\* reported as deleted or has its failure in errors, never both
CleanupAttemptsAll ==
    CleanedUp =>
        /\ Range(event.api.deleted) \cup Range(event.api.errors)
               = SelectedForDeletion
        /\ Range(event.api.deleted) \cap Range(event.api.errors) = {}
        /\ ~event.api.dryRun =>
               DOMAIN backupHistory \cap Range(event.api.deleted) = {}

\* C38: during cleanup a failure while deleting one record does not abort
\* the pass: every other record selected for deletion is still attempted,
\* the failure is collected in errors, and a record whose deletion failed
\* is neither reported as deleted nor left in the index with its stored
\* copy already removed.  Violated: when the metadata file cannot be
\* removed the stored copy is gone already and the record stays indexed.
CleanupFailureLeavesRecordWhole ==
    /\ CleanupAttemptsAll
    /\ CleanedUp => \A id \in Range(event.api.errors) : ~CopyRemoved(id)

\* undoOperations(1) has returned from the entry of the copy_file command
\* that was the last command to record anything
CopyUndone ==
    /\ event.kind = "undo_return"
    /\ event.tried = <<nextOpId - 1>>
    /\ preImage[nextOpId - 1].cmd = "copy_file"

\* C39: after a successful copy_file followed by undo, the destination is
\* back in its pre-copy state: absent if it did not exist before the copy,
\* and holding its previous content if the copy overwrote it; the source is
\* unchanged.  Violated: the copy is recorded as a delete_file entry, whose
\* reversal fails when there was no backup and writes an empty file over
\* the destination when there was one.
CopyUndoRestoresDestination ==
    CopyUndone =>
        /\ fs[preImage[nextOpId - 1].post] = preImage[nextOpId - 1].target
        /\ fs[preImage[nextOpId - 1].path] = preImage[nextOpId - 1].source

\* what does hold: the source is as the copy found it, and the destination
\* holds the copy when no backup was taken and an empty file when one was
CopyUndoLeavesCopy ==
    CopyUndone =>
        /\ fs[preImage[nextOpId - 1].path] = preImage[nextOpId - 1].source
        /\ fs[preImage[nextOpId - 1].post] =
               IF preImage[nextOpId - 1].target = Absent
               THEN preImage[nextOpId - 1].source
               ELSE File(<<>>)
        /\ event.results[1].success = (preImage[nextOpId - 1].target # Absent)

\* the undo of a copy that overwrote a file has returned
CopyOverwriteUndone ==
    /\ CopyUndone
    /\ preImage[nextOpId - 1].target # Absent

\* a step that takes intents out of the plan queue
QueueShrinks == Len(plannedOperations') < Len(plannedOperations)

\* the running executePlannedOperations has handed every intent of the
\* queue to executeCommand, and the gate took each of them
WholeQueueExecuted ==
    /\ planRun.pc = "run"
    /\ plannedOperations = planRun.operations
    /\ callCount - planRun.base = Len(planRun.operations)
    /\ event'.outcome # "rejected"

\* C40: an intent added to the plan queue is never dropped without being
\* run: under any interleaving of addOperation with a running
\* executePlannedOperations, and also when the gate is Busy during plan
\* execution, each queued intent is either executed through the gate or
\* still in the queue until the user clears the plan.  Violated: the
\* clearPlan that ends executePlannedOperations empties the queue whatever
\* was added to it or rejected by the gate in the meantime.
QueuedIntentNeverDropped ==
    [][QueueShrinks /\ event'.api.op # "clearPlan" => WholeQueueExecuted]_vars

\* what does hold: the queue loses intents only when an execution of the
\* plan finishes; it is then empty, and unless the gate was Busy when the
\* execution began, the intents that were in the queue when it began have
\* all been handed to executeCommand and those queued later have not
QueueDropsOnlyAtPlanEnd ==
    [][QueueShrinks =>
           /\ PlanExecutionFinishes
           /\ plannedOperations' = <<>>
           /\ event'.outcome # "rejected" =>
                  /\ planRun.pc = "run"
                  /\ callCount - planRun.base = Len(planRun.operations)]_vars

====
